---- MODULE Spec2Model ----
(***************************************************************************)
(* Appearance synchronisation of the SparkPilot desktop shell.             *)
(*                                                                         *)
(* Main process (src/unnamed/part_006, lines 144-174): getSnapshot,        *)
(* broadcastAppearanceUpdate and setupAppearanceIpc over Electron's        *)
(* nativeTheme, ipcMain and webContents.                                   *)
(* Shared contract (src/src/main/shared/appearance.ts): ThemeSourceSchema  *)
(* and AppearanceSnapshotSchema.                                           *)
(* Renderer (src/src/renderer/src/components/window/window-chrome.tsx):    *)
(* the WindowChrome subscriber and its theme selector.                     *)
(* Preload (src/src/preload/index.ts): the early dark/light application.   *)
(*                                                                         *)
(* The main-side setThemeSource handler, the Preference Store access and   *)
(* the preload bridge behind window.xAPI.appearance are not part of the    *)
(* sources; they are modelled from the specification (sections 4.1, 4.2    *)
(* and 4.3) and marked as such where they are defined. The preload of the  *)
(* sources exposes no appearance bridge: the variable bridge says which    *)
(* of the two a run has, the exposed object or the specified one.          *)
(***************************************************************************)
EXTENDS Integers, Sequences, FiniteSets, TLC

\* ------------------------------------------------------------------ bounds

\* Number of window slots (webContents) the model opens.
NumWindows == 2

Windows == 1..NumWindows

\* ------------------------------------------------------------------ values

\* z.union([z.literal('system'), z.literal('light'), z.literal('dark')])
ThemeSources == {"system", "light", "dark"}

\* A mutant of the schema: any string is accepted.
ThemeSourceSchemaAnyString(v) == TRUE

\* ThemeSourceSchema: accepts exactly the three literals.
ThemeSourceSchema(v) == v \in ThemeSources

\* Values a caller may hand to setThemeSource across the transport.
ThemeInputs == ThemeSources \cup {"blue"}

\* The snapshot-shaped value standing for "no snapshot returned".
NoSnap == [themeSource |-> "none", shouldUseDarkColors |-> FALSE]

\* What the preload script exposes as window.xAPI: "exposed" is the object of
\* src/preload/index.ts (electronAPI alone, no appearance member), "specified"
\* is that object with the appearance bridge of the specification (4.2).
Bridges == {"exposed", "specified"}

\* Cap on the 'appearance:updated' messages in flight to one window.
MaxInFlight == 2

\* Where two windows are followed, an operation that broadcasts starts when
\* no window has more than this many messages in flight.
MaxBacklog == 0

VARIABLES
  themeSource,       \* nativeTheme.themeSource (the OS follow mode)
  osDark,            \* the operating system's own dark-mode signal
  stored,            \* Preference Store: the persisted themeSource
  handleRegistered,  \* ipcMain has a handler for 'appearance:get'
  listeners,         \* number of listeners on nativeTheme 'updated'
  bridge,            \* what the preload of this build exposes as window.xAPI
  win,               \* per window: status and the appearance its document shows
  chan,              \* per window: the messages sent to its webContents, not yet arrived
  log,               \* the broadcast cycles the last operation ran, in order
  last               \* the last operation, its inputs, outcome and result

vars == <<themeSource, osDark, stored, handleRegistered, listeners, bridge,
          win, chan, log, last>>

\* ------------------------------------------------- OS Theme Observer contract

\* nativeTheme.shouldUseDarkColors: the effective dark flag. A forced follow
\* mode ('light' / 'dark') decides it; 'system' mirrors the OS signal.
ShouldUseDarkColors(ts, os) == IF ts = "system" THEN os ELSE ts = "dark"

\* The change notification ('updated') fires when the effective mode changes,
\* also as a side effect of assigning the follow mode.
UpdatedEmitted(ts, os, ts2, os2) ==
  ShouldUseDarkColors(ts, os) # ShouldUseDarkColors(ts2, os2)

\* ------------------------------------------------------- renderer windows

\* Payloads that may arrive on a window's 'appearance:updated' channel from
\* outside the Coordinator (the transport crosses a process boundary): an
\* unknown themeSource, a snapshot of the older isDarkMode shape, and one
\* without themeSource.
UntrustedPayloads ==
  { [themeSource |-> "blue", shouldUseDarkColors |-> TRUE],
    [themeSource |-> "dark", isDarkMode |-> TRUE],
    [shouldUseDarkColors |-> FALSE] }

\* JavaScript property presence: a missing key reads as undefined.
HasKey(r, k) == k \in DOMAIN r

\* Mutant: the schema checks themeSource only.
AppearanceSnapshotSchemaNoFlag(p) ==
  HasKey(p, "themeSource") /\ ThemeSourceSchema(p.themeSource)

\* AppearanceSnapshotSchema: z.object({ themeSource: ThemeSourceSchema,
\* shouldUseDarkColors: z.boolean() }).
AppearanceSnapshotSchema(p) ==
  /\ HasKey(p, "themeSource") /\ ThemeSourceSchema(p.themeSource)
  /\ HasKey(p, "shouldUseDarkColors") /\ p.shouldUseDarkColors \in BOOLEAN

\* What a successful parse hands on: z.object keeps the schema's keys only.
Parsed(p) == [k \in {"themeSource", "shouldUseDarkColors"} \cap DOMAIN p |-> p[k]]

\* classList.toggle('dark', force): an undefined force flips the class.
ClassListToggle(present, snap) ==
  IF HasKey(snap, "isDarkMode") THEN snap.isDarkMode ELSE ~present

\* snap.isDarkMode ? 'dark' : 'light': undefined is falsy.
ColorSchemeOf(snap) ==
  IF HasKey(snap, "isDarkMode") /\ snap.isDarkMode THEN "dark" ELSE "light"

\* The callback WindowChrome registers with onChanged.
onChangedCallback(wrec, snap) ==
  [wrec EXCEPT !.displayed = snap.themeSource,
               !.dark = ClassListToggle(wrec.dark, snap),
               !.colorScheme = ColorSchemeOf(snap)]

\* The preload bridge of the feed: validate the payload against
\* AppearanceSnapshotSchema, drop it when malformed, else call the subscriber.
bridgeOnUpdated(wrec, payload) ==
  IF AppearanceSnapshotSchema(payload)
  THEN onChangedCallback(wrec, Parsed(payload))
  ELSE wrec

\* Mutant: the listener stays on the channel whatever the window's subscription.
ipcArrivesAnyStatus(wrec, payload) == bridgeOnUpdated(wrec, payload)

\* An 'appearance:updated' message reaching a window: a window that has not
\* subscribed has no listener on the channel and the message is lost.
ipcArrives(wrec, payload) ==
  IF wrec.status = "subscribed" THEN bridgeOnUpdated(wrec, payload) ELSE wrec

\* How a payload arriving at a window ends.
Disposition(wrec, payload) ==
  IF wrec.status # "subscribed" THEN "dropped"
  ELSE IF AppearanceSnapshotSchema(payload) THEN "applied" ELSE "discarded"

\* Mutant: classList.toggle('dark') without its second argument.
classListToggleNoForce(root, token, force) == [root EXCEPT !.dark = ~@]

\* classList.toggle(token, force) of the root element, the token being
\* 'dark': the class is present afterwards exactly when force is true.
classListToggle(root, token, force) == [root EXCEPT !.dark = force]

\* The try block of the script: prefersDark from matchMedia, or false
\* when matchMedia is not there; the class, then the color-scheme. A throw
\* leaves the block at the statement that threw.
earlyAppearance(env, root) ==
  IF env.matchMedia = "throws"
  THEN [root |-> root, thrown |-> TRUE]
  ELSE LET prefersDark == IF env.matchMedia = "present" THEN env.matches ELSE FALSE
           toggled == classListToggle(root, "dark", prefersDark)
       IN  IF env.classList = "throws"
           THEN [root |-> root, thrown |-> TRUE]
           ELSE IF env.style = "throws"
           THEN [root |-> toggled, thrown |-> TRUE]
           ELSE [root |-> [toggled EXCEPT !.colorScheme =
                             IF prefersDark THEN "dark" ELSE "light"],
                 thrown |-> FALSE]

\* The preload script from its first statement to its last: the try block,
\* whose catch swallows what it threw, then contextBridge.exposeInMainWorld.
preloadScript(env, root) ==
  LET early == earlyAppearance(env, root)
  IN  [ran |-> TRUE, env |-> env, before |-> root, root |-> early.root,
       caught |-> early.thrown, exposed |-> TRUE]

\* ------------------------------------------------------------ main process

\* Mutant: the snapshot carries the raw OS signal instead of the effective flag.
getSnapshotRawOsSignal(ts, os) ==
  [themeSource |-> ts, shouldUseDarkColors |-> os]

\* Mutant: the follow mode of the snapshot is the one read before the
\* operation under way assigned nativeTheme.themeSource.
getSnapshotStaleSource(ts, os) ==
  [themeSource |-> themeSource, shouldUseDarkColors |-> ShouldUseDarkColors(ts, os)]

\* Mutant: the snapshot always reports the 'system' follow mode.
getSnapshotAlwaysSystem(ts, os) ==
  [themeSource |-> "system", shouldUseDarkColors |-> ShouldUseDarkColors(ts, os)]

\* getSnapshot: nativeTheme.themeSource with nativeTheme.shouldUseDarkColors.
getSnapshot(ts, os) ==
  [themeSource |-> ts, shouldUseDarkColors |-> ShouldUseDarkColors(ts, os)]

\* webContents.getAllWebContents(): every window slot that holds a webContents.
InRegistry(wrec) == wrec.status # "none"

\* contents.send throws on a webContents whose delivery channel is torn down.
SendThrows(wrec) == wrec.status = "torn"

\* The state of one run of the send loop: the windows as the main process
\* finds them, the messages in flight, the recipients whose send returned,
\* those whose send threw, and whether an exception left the loop.
LoopStart(wn, ch) ==
  [win |-> wn, chan |-> ch, sent |-> {}, threw |-> {}, raised |-> FALSE]

\* contents.send('appearance:updated', snapshot) on the webContents of
\* window i: the message is posted to the window's process and the call
\* returns; nothing has run in the window yet.
send(b, i, snapshot) ==
  [b EXCEPT !.chan[i] = Append(@, snapshot), !.sent = @ \cup {i}]

\* Mutant: no try/catch, the first failing recipient ends the loop by throwing.
RECURSIVE sendLoopAbortOnThrow(_, _, _)
sendLoopAbortOnThrow(b, i, snapshot) ==
  IF i > NumWindows THEN b
  ELSE IF ~InRegistry(b.win[i]) THEN sendLoopAbortOnThrow(b, i + 1, snapshot)
  ELSE IF SendThrows(b.win[i])
       THEN [b EXCEPT !.threw = @ \cup {i}, !.raised = TRUE]
       ELSE sendLoopAbortOnThrow(send(b, i, snapshot), i + 1, snapshot)

\* Mutant: the loop returns after the first successful send.
RECURSIVE sendLoopFirstOnly(_, _, _)
sendLoopFirstOnly(b, i, snapshot) ==
  IF i > NumWindows THEN b
  ELSE IF ~InRegistry(b.win[i]) THEN sendLoopFirstOnly(b, i + 1, snapshot)
  ELSE IF SendThrows(b.win[i])
       THEN sendLoopFirstOnly([b EXCEPT !.threw = @ \cup {i}], i + 1, snapshot)
       ELSE send(b, i, snapshot)

\* The for-loop of broadcastAppearanceUpdate from recipient i on: each send is
\* attempted in registry order; a throwing send is caught and the loop goes on.
RECURSIVE sendLoop(_, _, _)
sendLoop(b, i, snapshot) ==
  IF i > NumWindows THEN b
  ELSE IF ~InRegistry(b.win[i]) THEN sendLoop(b, i + 1, snapshot)
  ELSE IF SendThrows(b.win[i])
       THEN sendLoop([b EXCEPT !.threw = @ \cup {i}], i + 1, snapshot)
       ELSE sendLoop(send(b, i, snapshot), i + 1, snapshot)

\* One broadcast cycle as the log keeps it.
Cycle(snapshot, b) ==
  [snapshot |-> snapshot, sent |-> b.sent, threw |-> b.threw, raised |-> b.raised]

\* The main process as the Coordinator's operations see and change it, with
\* the messages it has posted to the windows.
Here ==
  [themeSource |-> themeSource, osDark |-> osDark, stored |-> stored,
   win |-> win, chan |-> chan, log |-> << >>]

\* broadcastAppearanceUpdate: one snapshot, taken before the loop, sent to all.
broadcastAppearanceUpdate(m) ==
  LET snapshot == getSnapshot(m.themeSource, m.osDark)
      b == sendLoop(LoopStart(m.win, m.chan), 1, snapshot)
  IN  [m EXCEPT !.chan = b.chan, !.log = Append(@, Cycle(snapshot, b))]

\* Mutant: the OS-change handler also writes the effective mode to the store.
onNativeThemeUpdatedPersisting(m) ==
  [broadcastAppearanceUpdate(m) EXCEPT
     !.stored = IF ShouldUseDarkColors(m.themeSource, m.osDark) THEN "dark" ELSE "light"]

\* The listener of nativeTheme 'updated': broadcast, nothing else.
onNativeThemeUpdated(m) == broadcastAppearanceUpdate(m)

\* Emitting 'updated' runs each of the n registered listeners in turn.
RECURSIVE emitUpdated(_, _)
emitUpdated(n, m) ==
  IF n = 0 THEN m ELSE emitUpdated(n - 1, onNativeThemeUpdated(m))

\* The main process after nativeTheme moved from (ts, os) to m's follow mode
\* and OS signal: a change of the effective mode notifies every listener.
nativeThemeChanged(ts, os, m) ==
  emitUpdated(IF UpdatedEmitted(ts, os, m.themeSource, m.osDark) THEN listeners ELSE 0, m)

\* Assigning nativeTheme.themeSource.
assignThemeSource(m, ts) ==
  nativeThemeChanged(m.themeSource, m.osDark, [m EXCEPT !.themeSource = ts])

\* Every window's channel holds at most MaxInFlight messages.
Room(ch) == \A w \in Windows : Len(ch[w]) <= MaxInFlight

\* No window has more than n messages in flight.
Backlog(n) == \A w \in Windows : Len(chan[w]) <= n

\* The record kept of the last operation: its name, its argument, whether the
\* Preference Store accepted writes during it, its outcome, its result, and
\* the window it ran in (0 for the main process).
Op(op, arg, ioOk, outcome, snap) ==
  [op |-> op, arg |-> arg, ioOk |-> ioOk, outcome |-> outcome, snap |-> snap, w |-> 0]

\* The record kept of a step that ran in window w.
WindowStep(op, w, arg, outcome, snap) ==
  [Op(op, arg, TRUE, outcome, snap) EXCEPT !.w = w]

\* The last operation was a step of a window's life, which returns nothing.
WindowOp == Op("window", "", TRUE, "", NoSnap)

\* ------------------------------------------------------------------ state

\* A window slot without a window.
NoWindow ==
  [status |-> "none", dark |-> FALSE, colorScheme |-> "", displayed |-> "system"]

\* The state after process start, before any setup call.
\* The Preference Store row starts with themeSource 'system'.
Init ==
  /\ themeSource = "system"
  /\ osDark \in BOOLEAN
  /\ stored = "system"
  /\ handleRegistered = FALSE
  /\ listeners = 0
  /\ bridge \in Bridges
  /\ win = [w \in Windows |-> NoWindow]
  /\ chan = [w \in Windows |-> << >>]
  /\ log = << >>
  /\ last = Op("init", "", TRUE, "", NoSnap)

\* ------------------------------------------------- Appearance Coordinator

\* Mutant: the 'updated' listener is registered before the invoke handler, so
\* a repeated setup call adds a listener before the duplicate handler throws.
SetupAppearanceIpcListenerFirst ==
  \E m \in {assignThemeSource(Here, "system")} :
      /\ Room(m.chan)
      /\ themeSource' = m.themeSource
      /\ chan' = m.chan
      /\ stored' = m.stored
      /\ log' = m.log
      /\ handleRegistered' = TRUE
      /\ listeners' = listeners + 1
      /\ last' = Op("setupAppearanceIpc", "", TRUE,
                    IF handleRegistered THEN "threw" ELSE "ok", NoSnap)
      /\ UNCHANGED <<osDark, bridge, win>>

\* setupAppearanceIpc: force the follow mode to 'system' (which may notify the
\* listeners already registered, whose broadcast posts its messages),
\* register the 'appearance:get' handler (ipcMain.handle throws when the
\* channel already has one, which ends the call), then register one 'updated'
\* listener.
SetupAppearanceIpc ==
  \E m \in {assignThemeSource(Here, "system")} :
      /\ Room(m.chan)
      /\ themeSource' = m.themeSource
      /\ chan' = m.chan
      /\ stored' = m.stored
      /\ log' = m.log
      /\ handleRegistered' = TRUE
      /\ listeners' = IF handleRegistered THEN listeners ELSE listeners + 1
      /\ last' = Op("setupAppearanceIpc", "", TRUE,
                    IF handleRegistered THEN "threw" ELSE "ok", NoSnap)
      /\ UNCHANGED <<osDark, bridge, win>>

\* Mutant: the 'appearance:get' handler also broadcasts the snapshot it returns.
AppearanceGetBroadcasting ==
  \E m \in {broadcastAppearanceUpdate(Here)} :
    /\ handleRegistered
    /\ Room(m.chan)
    /\ chan' = m.chan
    /\ log' = m.log
    /\ last' = Op("appearance:get", "", TRUE, "ok", getSnapshot(themeSource, osDark))
    /\ UNCHANGED <<themeSource, osDark, stored, handleRegistered, listeners, bridge, win>>

\* ipcMain.handle('appearance:get', () => getSnapshot()): a read.
AppearanceGet ==
  /\ handleRegistered
  /\ log' = << >>
  /\ last' = Op("appearance:get", "", TRUE, "ok", getSnapshot(themeSource, osDark))
  /\ UNCHANGED <<themeSource, osDark, stored, handleRegistered, listeners, bridge,
                 win, chan>>

\* An invoke reaches ipcMain on a channel that has no handler: it is rejected
\* and nothing changes.
InvokeUnhandled ==
  /\ ~handleRegistered
  /\ log' = << >>
  /\ last' = Op("unhandledInvoke", "", TRUE, "rejected", NoSnap)
  /\ UNCHANGED <<themeSource, osDark, stored, handleRegistered, listeners, bridge,
                 win, chan>>

\* The operating system flips its dark-mode signal. When that changes the
\* effective mode, nativeTheme emits 'updated' and every listener runs: each
\* posts one message per window.
OsThemeChanged ==
  \E m \in {nativeThemeChanged(themeSource, osDark, [Here EXCEPT !.osDark = ~osDark])} :
      /\ Room(m.chan)
      /\ osDark' = m.osDark
      /\ chan' = m.chan
      /\ stored' = m.stored
      /\ log' = m.log
      /\ last' = Op("osThemeChanged", "", TRUE,
                    IF UpdatedEmitted(themeSource, osDark, themeSource, ~osDark)
                    THEN "emitted" ELSE "silent", NoSnap)
      /\ UNCHANGED <<themeSource, handleRegistered, listeners, bridge, win>>

\* setThemeSource(next) of the Coordinator on the main process m: validate,
\* persist (ioOk tells whether the Preference Store write succeeds), apply to
\* the OS Theme Observer, recompute the snapshot, broadcast it, return it.
setThemeSource(m, next, ioOk) ==
  IF ~ThemeSourceSchema(next)
  THEN [m |-> m, outcome |-> "InvalidArgument", snap |-> NoSnap]
  ELSE [m |-> broadcastAppearanceUpdate(
                assignThemeSource(IF ioOk THEN [m EXCEPT !.stored = next] ELSE m, next)),
        outcome |-> IF ioOk THEN "ok" ELSE "PersistenceFailed",
        snap |-> IF ioOk THEN getSnapshot(next, m.osDark) ELSE NoSnap]

\* A setThemeSource call arriving over the transport with any argument, once
\* the Coordinator's handlers are registered: the handler runs in the main
\* process from its first statement to its return.
TransportSetThemeSource ==
  \E next \in ThemeInputs, ioOk \in BOOLEAN :
    \E r \in {setThemeSource(Here, next, ioOk)} :
      \E m \in {r.m} :
        /\ handleRegistered
        /\ Room(m.chan)
        /\ themeSource' = m.themeSource
        /\ stored' = m.stored
        /\ chan' = m.chan
        /\ log' = m.log
        /\ last' = Op("setThemeSource", next, ioOk, r.outcome, r.snap)
        /\ UNCHANGED <<osDark, handleRegistered, listeners, bridge, win>>

\* ------------------------------------------------------- window lifecycle

\* What the main process and the OS leave unchanged in a step of a window.
mainVars == <<themeSource, osDark, stored, handleRegistered, listeners, bridge>>

\* createWindow in the main process: the window's webContents joins the
\* registry and its load is started; no script has run in its document.
CreateWindow(w) ==
  /\ win[w].status = "none"
  /\ win' = [win EXCEPT ![w] = [NoWindow EXCEPT !.status = "loading"]]
  /\ log' = << >>
  /\ last' = WindowOp
  /\ UNCHANGED <<mainVars, chan>>

\* The environment the preload script finds in a window: window.matchMedia is
\* there, the prefers-color-scheme query answers with matches, and the root
\* element can be written.
WindowEnv(matches) ==
  [matchMedia |-> "present", matches |-> matches, classList |-> "ok", style |-> "ok"]

\* The preload script runs in the document of window w: its early
\* application sets the root 'dark' class and color-scheme from what the
\* media query answers in that window.
Preload(w) ==
  \E matches \in BOOLEAN :
    \E r \in {preloadScript(WindowEnv(matches),
                            [dark |-> win[w].dark, colorScheme |-> win[w].colorScheme])} :
      /\ win[w].status = "loading"
      /\ win' = [win EXCEPT ![w].status = "attached",
                            ![w].dark = r.root.dark,
                            ![w].colorScheme = r.root.colorScheme]
      /\ log' = << >>
      /\ last' = WindowOp
      /\ UNCHANGED <<mainVars, chan>>

\* WindowChrome mounts: its themeSource state starts from the URL parameter
\* (absent in the URLs the main process builds, hence 'system') and its effect
\* calls window.xAPI.appearance.onChanged. With the bridge of the
\* specification that subscribes the callback; with the object the preload
\* exposes, appearance is undefined, the effect throws and no listener is
\* registered.
Mount(w) ==
  /\ win[w].status = "attached"
  /\ win' = [win EXCEPT ![w].status = IF bridge = "specified" THEN "subscribed"
                                       ELSE "mounted",
                        ![w].displayed = "system"]
  /\ log' = << >>
  /\ last' = WindowOp
  /\ UNCHANGED <<mainVars, chan>>

\* The first message in flight to window w arrives in its process: the
\* listener, if the window has subscribed, validates it and runs the callback.
Deliver(w) ==
  /\ chan[w] # << >>
  /\ win' = [win EXCEPT ![w] = ipcArrives(@, Head(chan[w]))]
  /\ chan' = [chan EXCEPT ![w] = Tail(@)]
  /\ log' = << >>
  /\ last' = WindowStep("deliver", w, "", Disposition(win[w], Head(chan[w])),
                        Head(chan[w]))
  /\ UNCHANGED mainVars

\* A payload that did not come from the Coordinator arrives at window w.
ReceiveUntrusted(w) ==
  \E p \in UntrustedPayloads :
    /\ win[w].status = "subscribed"
    /\ win' = [win EXCEPT ![w] = ipcArrives(@, p)]
    /\ log' = << >>
    /\ last' = Op("receiveUntrusted", "", TRUE, Disposition(win[w], p), p)
    /\ UNCHANGED <<mainVars, chan>>

\* onChangeThemeSource(next) of WindowChrome up to its await: next is shown
\* at once, then window.xAPI.appearance.setThemeSource(next) is called. With
\* the bridge of the specification the call is issued and the function waits
\* for its result; with the object the preload exposes the call throws inside
\* the try and the catch drops it. Nothing has reached the main process.
OnChangeThemeSource(w) ==
  \E next \in ThemeSources :
    /\ win[w].status \in {"mounted", "subscribed"}
    /\ win' = [win EXCEPT ![w].displayed = next]
    /\ log' = << >>
    /\ last' = WindowStep("onChangeThemeSource", w, next,
                          IF bridge = "specified" THEN "issued" ELSE "TypeError",
                          NoSnap)
    /\ UNCHANGED <<mainVars, chan>>

\* Window w's delivery channel is torn down; its webContents is still listed
\* and the messages in flight to it are lost.
TearDown(w) ==
  /\ win[w].status \in {"loading", "attached", "mounted", "subscribed"}
  /\ win' = [win EXCEPT ![w] = [NoWindow EXCEPT !.status = "torn"]]
  /\ chan' = [chan EXCEPT ![w] = << >>]
  /\ log' = << >>
  /\ last' = WindowOp
  /\ UNCHANGED mainVars

\* The torn-down webContents leaves the registry.
Remove(w) ==
  /\ win[w].status = "torn"
  /\ win' = [win EXCEPT ![w] = NoWindow]
  /\ log' = << >>
  /\ last' = WindowOp
  /\ UNCHANGED <<mainVars, chan>>

\* ------------------------------------------------------------ system tray

\* Cap on the Tray instances constructed in one run of the model.
MaxTrays == 3

VARIABLES
  appTray,           \* the module-scoped reference: 0 is null, else a Tray's id
  trays,             \* every Tray constructed so far, by id (construction order)
  trayLast           \* the last tray call: its name, argument, result, outcome

trayVars == <<appTray, trays, trayLast>>

\* Menus a caller passes; "undefined" is the omitted optional argument.
Menus == {"menuA", "menuB"}

\* Tooltips a caller passes.
Tooltips == {"tipA", "tipB"}

\* A Tray after destroy(): every later method call on it throws.
DestroyedTray == [destroyed |-> TRUE, menu |-> "", tooltip |-> ""]

\* The tray module's state as its functions see it.
TrayHere == [appTray |-> appTray, trays |-> trays]

\* The result of a tray function: the state it leaves, what it returned (a
\* Tray id, or 0 for null and for void) and whether it returned or threw.
TrayResult(t, ret, outcome) ==
  [appTray |-> t.appTray, trays |-> t.trays, ret |-> ret, outcome |-> outcome]

\* tray.setContextMenu(menu) / tray.setToolTip(tip) on Tray id: field f set to v.
trayMethod(t, id, f, v) ==
  IF t.trays[id].destroyed
  THEN TrayResult(t, 0, "threw")
  ELSE TrayResult([t EXCEPT !.trays[id][f] = v], 0, "ok")

\* new Tray(createTrayImage()), setToolTip(app.getName()) and
\* setContextMenu(menu ?? buildDefaultTrayMenu()).
constructTray(t, menu) ==
  [appTray |-> Len(t.trays) + 1,
   trays |-> Append(t.trays,
                    [destroyed |-> FALSE,
                     menu |-> IF menu = "undefined" THEN "default" ELSE menu,
                     tooltip |-> "appName"])]

\* Mutant: no check for an existing tray, every call constructs one.
createAppTrayAlwaysNew(t, menu) ==
  TrayResult(constructTray(t, menu), Len(t.trays) + 1, "ok")

\* createAppTray(menu?): reuse the existing tray, setting its menu when one is
\* given, else construct the tray.
createAppTray(t, menu) ==
  IF t.appTray # 0
  THEN IF menu # "undefined"
       THEN [trayMethod(t, t.appTray, "menu", menu) EXCEPT
               !.ret = IF t.trays[t.appTray].destroyed THEN 0 ELSE t.appTray]
       ELSE TrayResult(t, t.appTray, "ok")
  ELSE TrayResult(constructTray(t, menu), Len(t.trays) + 1, "ok")

\* setTrayMenu(menu): only when a tray exists.
setTrayMenu(t, menu) ==
  IF t.appTray # 0 THEN trayMethod(t, t.appTray, "menu", menu)
  ELSE TrayResult(t, 0, "ok")

\* setTrayTooltip(tooltip): only when a tray exists.
setTrayTooltip(t, tooltip) ==
  IF t.appTray # 0 THEN trayMethod(t, t.appTray, "tooltip", tooltip)
  ELSE TrayResult(t, 0, "ok")

\* getTray(): the reference as it is.
getTray(t) == TrayResult(t, t.appTray, "ok")

\* Mutant: the tray is destroyed but the module keeps its reference.
destroyAppTrayKeepsReference(t) ==
  IF t.appTray # 0
  THEN TrayResult([t EXCEPT !.trays[t.appTray] = DestroyedTray], 0, "ok")
  ELSE TrayResult(t, 0, "ok")

\* destroyAppTray(): appTray?.destroy(), then appTray = null.
destroyAppTray(t) ==
  IF t.appTray # 0
  THEN TrayResult([t EXCEPT !.trays[t.appTray] = DestroyedTray, !.appTray = 0],
                  0, "ok")
  ELSE TrayResult([t EXCEPT !.appTray = 0], 0, "ok")

\* The record kept of the last tray call.
TrayOp(op, arg, r) == [op |-> op, arg |-> arg, ret |-> r.ret, outcome |-> r.outcome]

\* No tray call has been made and no Tray constructed.
TrayInit ==
  /\ appTray = 0
  /\ trays = << >>
  /\ trayLast = [op |-> "init", arg |-> "", ret |-> 0, outcome |-> "ok"]

\* A call of createAppTray with or without a menu.
CreateAppTray ==
  \E menu \in Menus \cup {"undefined"} :
    \E r \in {createAppTray(TrayHere, menu)} :
      /\ Len(r.trays) <= MaxTrays
      /\ appTray' = r.appTray
      /\ trays' = r.trays
      /\ trayLast' = TrayOp("createAppTray", menu, r)

\* A call of setTrayMenu.
SetTrayMenu ==
  \E menu \in Menus :
    \E r \in {setTrayMenu(TrayHere, menu)} :
      /\ appTray' = r.appTray
      /\ trays' = r.trays
      /\ trayLast' = TrayOp("setTrayMenu", menu, r)

\* A call of setTrayTooltip.
SetTrayTooltip ==
  \E tooltip \in Tooltips :
    \E r \in {setTrayTooltip(TrayHere, tooltip)} :
      /\ appTray' = r.appTray
      /\ trays' = r.trays
      /\ trayLast' = TrayOp("setTrayTooltip", tooltip, r)

\* A call of getTray.
GetTray ==
  \E r \in {getTray(TrayHere)} :
    /\ trayLast' = TrayOp("getTray", "", r)
    /\ UNCHANGED <<appTray, trays>>

\* A call of destroyAppTray.
DestroyAppTray ==
  \E r \in {destroyAppTray(TrayHere)} :
    /\ appTray' = r.appTray
    /\ trays' = r.trays
    /\ trayLast' = TrayOp("destroyAppTray", "", r)

\* ------------------------------------------- one window, messages in order

\* Cap on the broadcasts sent to the window in one run of the model.
MaxBroadcasts == 4

\* The window slot followed here.
ClientWindow == 1

VARIABLES
  sentSeq,           \* number of messages sent to the window so far
  appliedSeq,        \* number of the last message its callback applied, 0 for none
  phase              \* Unattached, ProvisionalApplied or Synced

clientVars == <<sentSeq, appliedSeq, phase>>

\* No window yet and no message sent.
ClientInit ==
  /\ sentSeq = 0
  /\ appliedSeq = 0
  /\ phase = "Unattached"

\* The number of the first message in flight to the window: the messages in
\* flight are the last ones sent.
headSeq == sentSeq - Len(chan[ClientWindow]) + 1

\* The messages a step of the main process sent to the window are counted.
ClientSent ==
  /\ sentSeq' = sentSeq + Len(chan'[ClientWindow]) - Len(chan[ClientWindow])
  /\ sentSeq' <= MaxBroadcasts
  /\ UNCHANGED <<appliedSeq, phase>>

\* unsubscribe(), the function onChanged returned: the listener is removed
\* if it is there.
unsubscribe(wrec) ==
  IF wrec.status = "subscribed" THEN [wrec EXCEPT !.status = "attached"] ELSE wrec

\* The record kept of a step that returns nothing, by name.
ClientOp(op, arg) == Op(op, arg, TRUE, "ok", NoSnap)

\* setupAppearanceIpc before any window exists.
ClientSetup ==
  /\ win[ClientWindow].status = "none"
  /\ ~handleRegistered
  /\ SetupAppearanceIpc
  /\ UNCHANGED clientVars

\* createWindow for the window: nothing is applied in it yet.
ClientCreateWindow ==
  /\ CreateWindow(ClientWindow)
  /\ UNCHANGED clientVars

\* The preload script runs in the window: the provisional application.
ClientPreload ==
  /\ Preload(ClientWindow)
  /\ phase' = "ProvisionalApplied"
  /\ UNCHANGED <<sentSeq, appliedSeq>>

\* WindowChrome mounts in the window.
ClientMount ==
  /\ Mount(ClientWindow)
  /\ UNCHANGED clientVars

\* WindowChrome's effect cleanup, or any other call of the unsubscribe()
\* that the bridge of the specification returns.
ClientDetach ==
  /\ bridge = "specified"
  /\ win[ClientWindow].status \in {"attached", "subscribed"}
  /\ win' = [win EXCEPT ![ClientWindow] = unsubscribe(@)]
  /\ log' = << >>
  /\ last' = ClientOp("detach", win[ClientWindow].status)
  /\ UNCHANGED <<mainVars, chan>>
  /\ UNCHANGED clientVars

\* The window is destroyed: messages still in flight to it are lost.
ClientTearDown ==
  /\ TearDown(ClientWindow)
  /\ phase' = "Unattached"
  /\ appliedSeq' = 0
  /\ UNCHANGED sentSeq

\* The destroyed window's webContents leaves the registry.
ClientRemove ==
  /\ Remove(ClientWindow)
  /\ UNCHANGED clientVars

\* The first message in flight arrives at the window.
ClientDeliver ==
  /\ Deliver(ClientWindow)
  /\ IF win'[ClientWindow] # win[ClientWindow] \/ last'.outcome = "applied"
     THEN appliedSeq' = headSeq /\ phase' = "Synced"
     ELSE UNCHANGED <<appliedSeq, phase>>
  /\ UNCHANGED sentSeq

\* A payload that did not come from the Coordinator arrives at the window.
ClientReceiveUntrusted ==
  /\ ReceiveUntrusted(ClientWindow)
  /\ phase' = IF win'[ClientWindow] # win[ClientWindow] THEN "Synced" ELSE phase
  /\ UNCHANGED <<sentSeq, appliedSeq>>

\* The OS flips its dark-mode signal; the broadcasts go out as messages.
ClientOsThemeChanged ==
  /\ OsThemeChanged
  /\ ClientSent

\* onChangeThemeSource(next) in the window, up to its await.
ClientOnChangeThemeSource ==
  /\ OnChangeThemeSource(ClientWindow)
  /\ UNCHANGED clientVars

\* A setThemeSource call runs in the main process; its broadcasts go out as
\* messages.
ClientSetThemeSource ==
  /\ TransportSetThemeSource
  /\ ClientSent

\* ------------------------------------- setThemeSource calls in arrival order

\* Cap on the setThemeSource calls issued and not yet started: those on their
\* way to the main process and those waiting there for their turn.
MaxQueue == 2

\* No call is being processed.
NoCall == "none"

\* The windows that are opened here: two of them, so that calls come from
\* different windows.
Callers == {w \in Windows : w <= 2}

VARIABLES
  calls,             \* per window: values of the calls issued there, not yet arrived
  queue,             \* values of the calls that arrived and have not started
  busy,              \* value of the call whose store write is suspended, or NoCall
  arrived            \* value of the call that arrived last, or NoCall

serialVars == <<calls, queue, busy, arrived>>

\* No call has been issued.
SerialInit ==
  /\ calls = [w \in Callers |-> << >>]
  /\ queue = << >>
  /\ busy = NoCall
  /\ arrived = NoCall

\* The number of calls issued and not yet started.
Waiting == Len(calls[1]) + Len(calls[2]) + Len(queue)

\* setupAppearanceIpc, once, at start.
SerialSetup ==
  /\ ~handleRegistered
  /\ SetupAppearanceIpc
  /\ UNCHANGED serialVars

\* createWindow for window w.
SerialCreateWindow(w) ==
  /\ CreateWindow(w)
  /\ UNCHANGED serialVars

\* The preload script runs in window w.
SerialPreload(w) ==
  /\ Preload(w)
  /\ UNCHANGED serialVars

\* WindowChrome mounts in window w.
SerialMount(w) ==
  /\ Mount(w)
  /\ UNCHANGED serialVars

\* The first message in flight to window w arrives.
SerialDeliver(w) ==
  /\ Deliver(w)
  /\ UNCHANGED serialVars

\* onChangeThemeSource(next) in window w, up to its await: next is shown at
\* once and the call that was issued is on its way to the main process, behind
\* the calls this window issued before; one that threw in the window reaches
\* nothing.
SerialCall(w) ==
  /\ OnChangeThemeSource(w)
  /\ IF last'.outcome = "issued"
     THEN /\ Waiting < MaxQueue
          /\ calls' = [calls EXCEPT ![w] = Append(@, last'.arg)]
     ELSE UNCHANGED calls
  /\ UNCHANGED <<queue, busy, arrived>>

\* The oldest call on its way from window w reaches the main process: with
\* the Coordinator's handler registered it waits behind the calls that arrived
\* before it, without one the invoke is rejected and the window's catch
\* swallows the rejection.
SerialArrive(w) ==
  /\ calls[w] # << >>
  /\ calls' = [calls EXCEPT ![w] = Tail(@)]
  /\ IF handleRegistered
     THEN /\ queue' = Append(queue, Head(calls[w]))
          /\ arrived' = Head(calls[w])
     ELSE UNCHANGED <<queue, arrived>>
  /\ log' = << >>
  /\ last' = [Op("arrive", Head(calls[w]), TRUE,
                 IF handleRegistered THEN "queued" ELSE "rejected", NoSnap)
              EXCEPT !.w = w]
  /\ UNCHANGED <<mainVars, win, chan, busy>>

\* The Coordinator is idle and takes the oldest waiting call: its Preference
\* Store write starts and is suspended.
SerialBegin ==
  /\ busy = NoCall
  /\ queue # << >>
  /\ busy' = Head(queue)
  /\ queue' = Tail(queue)
  /\ log' = << >>
  /\ last' = Op("begin", Head(queue), TRUE, "", NoSnap)
  /\ UNCHANGED <<mainVars, win, chan, calls, arrived>>

\* The suspended write completes or fails, and the rest of setThemeSource
\* runs to its end: apply, recompute, broadcast, return.
SerialFinish ==
  \E ioOk \in BOOLEAN :
    \E r \in {setThemeSource(Here, busy, ioOk)} :
      /\ busy # NoCall
      /\ Room(r.m.chan)
      /\ themeSource' = r.m.themeSource
      /\ stored' = r.m.stored
      /\ chan' = r.m.chan
      /\ log' = r.m.log
      /\ last' = Op("setThemeSource", busy, ioOk, r.outcome, r.snap)
      /\ busy' = NoCall
      /\ UNCHANGED <<osDark, handleRegistered, listeners, bridge, win, calls, queue, arrived>>

\* ------------------------------------------------------- tRPC HTTP server

\* Cap on the HTTP servers created in one run of the model.
MaxServers == 2

\* Cap on the stopTrpcServer calls awaiting a close at the same time.
MaxStops == 2

\* Cap on the length of a request URL.
MaxUrlLen == 3

\* Cap on the length of a pathname given to normalizeEndpointPath.
MaxPathLen == 4

\* Strings are sequences of characters; these are the characters of a path.
PathChars == {"/", "t", "a"}

\* The characters of a request URL: those of a path and the query mark.
UrlChars == PathChars \cup {"?"}

\* The strings over the characters cs of length lo to hi.
Strings(cs, lo, hi) == UNION {[1..n -> cs] : n \in lo..hi}

\* String.prototype.startsWith, endsWith and slice(n).
startsWith(str, prefix) ==
  /\ Len(prefix) <= Len(str)
  /\ SubSeq(str, 1, Len(prefix)) = prefix

endsWith(str, suffix) ==
  /\ Len(suffix) <= Len(str)
  /\ SubSeq(str, Len(str) - Len(suffix) + 1, Len(str)) = suffix

slice(str, n) == SubSeq(str, n + 1, Len(str))

\* normalizeEndpointPath(pathname): a pathname without a leading slash gets
\* one and is returned; any other loses one trailing slash if it is longer
\* than one character.
normalizeEndpointPath(pathname) ==
  IF ~startsWith(pathname, <<"/">>)
  THEN <<"/">> \o pathname
  ELSE IF Len(pathname) > 1 /\ endsWith(pathname, <<"/">>)
       THEN SubSeq(pathname, 1, Len(pathname) - 1)
       ELSE pathname

\* The pathnames of the configured VITE_TRPC_HTTP_URL: what URL.pathname can
\* give, always with a leading slash.
ConfiguredPathnames ==
  { <<"/">>, <<"/", "t">>, <<"/", "t", "/">>, <<"/", "t", "/", "a">> }

\* The module is not loaded: its constants have no value.
NotLoaded == << >>

\* The request methods tried.
Methods == {"GET", "POST", "OPTIONS"}

\* The Origin header of a request: absent, the configured origin, another one.
Origins == {"undefined", "configured", "other"}

\* The request URLs tried: the request targets that start with a slash, those
\* that start with several slashes included.
RequestUrls == {u \in Strings(UrlChars, 1, MaxUrlLen) : u[1] = "/"}

\* The position of the first character of str that is in cs, 0 when none is.
FirstOf(str, cs) ==
  IF \E i \in 1..Len(str) : str[i] \in cs
  THEN CHOOSE i \in 1..Len(str) :
         str[i] \in cs /\ \A j \in 1..(i - 1) : str[j] \notin cs
  ELSE 0

\* The position of the first query mark of a URL, 0 when it has none.
QueryMark(url) == FirstOf(url, {"?"})

\* The number of slashes a string starts with.
LeadingSlashes(str) ==
  CHOOSE n \in 0..Len(str) :
    /\ \A i \in 1..n : str[i] = "/"
    /\ (n = Len(str) \/ str[n + 1] # "/")

\* A path with its query as new URL reads them: the pathname up to the query
\* mark ('/' when empty), and the search, which is empty when nothing follows
\* the query mark.
pathAndSearch(str, host) ==
  LET q == QueryMark(str)
      path == IF q = 0 THEN str ELSE SubSeq(str, 1, q - 1)
  IN  [threw |-> FALSE,
       host |-> host,
       pathname |-> IF path = << >> THEN <<"/">> ELSE path,
       search |-> IF q = 0 \/ q = Len(str) THEN << >> ELSE SubSeq(str, q, Len(str))]

\* new URL(req.url, base) for a target that starts with a slash. One leading
\* slash starts a path on the host of the base (host "" here). Two or more
\* start an authority: the slashes are skipped, the host runs up to the next
\* slash or query mark, and an empty host makes the constructor throw.
incomingUrl(url) ==
  IF LeadingSlashes(url) < 2
  THEN pathAndSearch(url, << >>)
  ELSE LET rest == slice(url, LeadingSlashes(url))
           e == FirstOf(rest, {"/", "?"})
           host == IF e = 0 THEN rest ELSE SubSeq(rest, 1, e - 1)
       IN  IF host = << >>
           THEN [threw |-> TRUE, host |-> << >>, pathname |-> << >>, search |-> << >>]
           ELSE pathAndSearch(slice(rest, Len(host)), host)

\* The Access-Control-Allow-Origin header the listener sets.
allowOrigin(isDev, origin) ==
  LET requestOrigin == IF origin = "undefined" THEN "null" ELSE origin
  IN  IF isDev THEN "*"
      ELSE IF requestOrigin = "null" \/ requestOrigin = "configured"
           THEN requestOrigin ELSE "null"

\* The outcome of a request: the response status the listener wrote (0 when
\* it left the response to the tRPC handler, and when it threw), whether the
\* handler was invoked, the req.url the handler was given, and whether the
\* listener threw before it answered.
Response(status, handled, handlerUrl, isDev, origin) ==
  [status |-> status, handled |-> handled, handlerUrl |-> handlerUrl,
   threw |-> FALSE,
   allowOrigin |-> allowOrigin(isDev, origin),
   vary |-> ~isDev,
   allowMethods |-> "GET,POST,OPTIONS"]

\* The request listener of http.createServer: CORS headers, 204 for OPTIONS,
\* then new URL, which may throw out of the listener; 404 outside the
\* endpoint, else the prefix is stripped and the handler runs.
requestListener(endpoint, isDev, origin, method, url) ==
  LET pathname == incomingUrl(url).pathname
      isExact == pathname = endpoint
      isNested == startsWith(pathname, endpoint \o <<"/">>)
      stripped == slice(pathname, Len(endpoint))
  IN  IF method = "OPTIONS" THEN Response(204, FALSE, << >>, isDev, origin)
      ELSE IF incomingUrl(url).threw
      THEN [Response(0, FALSE, << >>, isDev, origin) EXCEPT !.threw = TRUE]
      ELSE IF ~isExact /\ ~isNested
      THEN Response(404, FALSE, << >>, isDev, origin)
      ELSE Response(0, TRUE,
                    (IF stripped = << >> THEN <<"/">> ELSE stripped)
                      \o incomingUrl(url).search,
                    isDev, origin)

VARIABLES
  ENDPOINT_PATH,     \* the module constant, NotLoaded before the module is loaded
  isDev,             \* is.dev of the process, FALSE before the module is loaded
  server,            \* the module-scoped handle: 0 is null, else an http.Server's id
  httpServers,       \* every http.Server created so far, by id (creation order)
  awaiting,          \* number of stopTrpcServer calls suspended at their await
  trpcLast,          \* the last step of the module: its name and what it did
  exchange,          \* the request served by the last step and its response
  lastCall           \* the last call issued: "start", "stop", or "none"

trpcVars == <<ENDPOINT_PATH, isDev, server, httpServers, awaiting, trpcLast, exchange, lastCall>>

\* No request was served by the last step.
NoExchange == [method |-> "", url |-> << >>, response |-> "none"]

\* The server module's state as its functions see it.
TrpcHere == [server |-> server, httpServers |-> httpServers, awaiting |-> awaiting]

\* Mutant: no check for an existing server, every call creates and listens.
startTrpcServerAlwaysNew(t) ==
  [t EXCEPT !.server = Len(t.httpServers) + 1,
            !.httpServers = Append(@, [state |-> "listening", listens |-> 1])]

\* startTrpcServer(): return if the handle is set, else http.createServer and
\* one server.listen.
startTrpcServer(t) ==
  IF t.server # 0
  THEN t
  ELSE [t EXCEPT !.server = Len(t.httpServers) + 1,
                 !.httpServers = Append(@, [state |-> "listening", listens |-> 1])]

\* Mutant: the handle is cleared before the close has completed.
stopTrpcServerClearsFirst(t) ==
  IF t.server = 0
  THEN t
  ELSE [t EXCEPT !.httpServers[t.server].state = "closing", !.server = 0]

\* stopTrpcServer() up to its await: return if the handle is null, else call
\* server.close and wait for its callback.
stopTrpcServer(t) ==
  IF t.server = 0
  THEN t
  ELSE [t EXCEPT !.httpServers[t.server].state = "closing",
                 !.awaiting = @ + 1]

\* The server's close has completed: every close callback resolves its
\* promise, and each suspended stopTrpcServer runs on: server = null.
closeCompleted(t) ==
  [t EXCEPT !.httpServers[t.server].state = "closed",
            !.server = 0,
            !.awaiting = 0]

\* The record kept of a step: its name, whether the call has returned or
\* resolved, and the handle it found.
TrpcOp(op, done, found) == [op |-> op, done |-> done, found |-> found]

\* No call has been made and no server created.
TrpcInit ==
  /\ ENDPOINT_PATH = NotLoaded
  /\ isDev = FALSE
  /\ exchange = NoExchange
  /\ lastCall = "none"
  /\ server = 0
  /\ httpServers = << >>
  /\ awaiting = 0
  /\ trpcLast = TrpcOp("init", TRUE, 0)

\* The module is loaded in a development or a production process:
\* ENDPOINT_PATH is computed from the configured URL.
LoadModule ==
  \E pathname \in ConfiguredPathnames, dev \in BOOLEAN :
    /\ ENDPOINT_PATH = NotLoaded
    /\ ENDPOINT_PATH' = normalizeEndpointPath(pathname)
    /\ isDev' = dev
    /\ trpcLast' = TrpcOp("load", TRUE, server)
    /\ exchange' = NoExchange
    /\ UNCHANGED <<server, httpServers, awaiting, lastCall>>

\* A call of startTrpcServer.
StartTrpcServer ==
  \E t \in {startTrpcServer(TrpcHere)} :
    /\ ENDPOINT_PATH # NotLoaded
    /\ Len(t.httpServers) <= MaxServers
    /\ exchange' = NoExchange
    /\ UNCHANGED <<ENDPOINT_PATH, isDev>>
    /\ server' = t.server
    /\ httpServers' = t.httpServers
    /\ awaiting' = t.awaiting
    /\ trpcLast' = TrpcOp("start", TRUE, server)
    /\ lastCall' = "start"

\* A call of stopTrpcServer: it resolves at once or is suspended at its await.
StopTrpcServer ==
  \E t \in {stopTrpcServer(TrpcHere)} :
    /\ ENDPOINT_PATH # NotLoaded
    /\ t.awaiting <= MaxStops
    /\ exchange' = NoExchange
    /\ UNCHANGED <<ENDPOINT_PATH, isDev>>
    /\ server' = t.server
    /\ httpServers' = t.httpServers
    /\ awaiting' = t.awaiting
    /\ trpcLast' = TrpcOp("stop", t.awaiting = awaiting, server)
    /\ lastCall' = "stop"

\* The close of the server being closed completes.
CloseCompleted ==
  /\ server # 0
  /\ httpServers[server].state = "closing"
  /\ \E t \in {closeCompleted(TrpcHere)} :
       /\ server' = t.server
       /\ httpServers' = t.httpServers
       /\ awaiting' = t.awaiting
       /\ trpcLast' = TrpcOp("closed", TRUE, server)
       /\ exchange' = NoExchange
       /\ UNCHANGED <<ENDPOINT_PATH, isDev, lastCall>>

\* A request reaches the server and its listener runs: the server is
\* listening, or it is closing and the request comes over a connection opened
\* before the close. Requests are followed one at a time.
Request ==
  \E origin \in Origins, method \in Methods, url \in RequestUrls :
    /\ exchange = NoExchange
    /\ server # 0
    /\ httpServers[server].state \in {"listening", "closing"}
    /\ exchange' = [method |-> method, url |-> url,
                    response |-> requestListener(ENDPOINT_PATH, isDev, origin, method, url)]
    /\ trpcLast' = TrpcOp("request", TRUE, server)
    /\ UNCHANGED <<ENDPOINT_PATH, isDev, server, httpServers, awaiting, lastCall>>

\* The response of the request followed has been sent.
ResponseSent ==
  /\ exchange # NoExchange
  /\ exchange' = NoExchange
  /\ trpcLast' = TrpcOp("responded", TRUE, server)
  /\ UNCHANGED <<ENDPOINT_PATH, isDev, server, httpServers, awaiting, lastCall>>

\* ------------------------------------------- normalizeEndpointPath alone

VARIABLES
  normalized         \* the last call of normalizeEndpointPath: argument and result

normalizeVars == <<normalized>>

\* normalizeEndpointPath has not been called.
NotNormalized == [called |-> FALSE, input |-> << >>, output |-> << >>]

NormalizeInit == normalized = NotNormalized

\* A call of normalizeEndpointPath with any pathname.
NormalizePathname ==
  \E pathname \in Strings(PathChars, 0, MaxPathLen) :
    normalized' = [called |-> TRUE, input |-> pathname,
                   output |-> normalizeEndpointPath(pathname)]

\* A call of normalizeEndpointPath with the result of the last call.
NormalizeAgain ==
  /\ normalized.called
  /\ normalized' = [called |-> TRUE, input |-> normalized.output,
                    output |-> normalizeEndpointPath(normalized.output)]

\* ------------------------------------------------- helloTrpc.letters pages

\* Characters are their char codes: 'A' and 'Z'.
CodeA == 65
CodeZ == 90

\* pageSize of the letters input: at most 5, 3 when omitted.
MaxPageSize == 5
DefaultPageSize == 3

\* An omitted cursor or pageSize, and the null nextCursor.
Absent == 0

\* The cursors a direct caller passes: one character, from before 'A' to
\* after 'Z'.
CursorCodes == (CodeA - 2)..(CodeZ + 2)

\* Mutant: a page that ends with 'Z' still returns a next cursor.
lettersCursorPastZ(cursor, pageSize) ==
  LET startChar == IF cursor = Absent THEN CodeA ELSE cursor
      size == IF pageSize = Absent THEN DefaultPageSize ELSE pageSize
      items == SelectSeq([i \in 1..size |-> startChar + (i - 1)], LAMBDA c : c <= CodeZ)
  IN  [items |-> items,
       nextCursor |-> IF items # << >> THEN items[Len(items)] + 1 ELSE Absent]

\* The letters query: pageSize characters from the cursor (from 'A' without
\* one), those after 'Z' dropped; nextCursor is the character after the last
\* item when that item is before 'Z', else null.
letters(cursor, pageSize) ==
  LET startChar == IF cursor = Absent THEN CodeA ELSE cursor
      size == IF pageSize = Absent THEN DefaultPageSize ELSE pageSize
      items == SelectSeq([i \in 1..size |-> startChar + (i - 1)], LAMBDA c : c <= CodeZ)
  IN  [items |-> items,
       nextCursor |-> IF items # << >> /\ items[Len(items)] < CodeZ
                      THEN items[Len(items)] + 1 ELSE Absent]

VARIABLES
  pagination,        \* a caller's iteration over the pages: page size, items so far,
                     \* pages fetched, the nextCursor returned last
  lettersLast        \* the last letters call: its input and the page returned

lettersVars == <<pagination, lettersLast>>

\* No iteration has started.
NotStarted ==
  [pageSize |-> Absent, items |-> << >>, pages |-> 0, nextCursor |-> Absent]

\* The record kept of a letters call.
LettersCall(cursor, pageSize, page) ==
  [called |-> TRUE, cursor |-> cursor, pageSize |-> pageSize, page |-> page]

LettersInit ==
  /\ pagination = NotStarted
  /\ lettersLast = [called |-> FALSE, cursor |-> Absent, pageSize |-> Absent,
                    page |-> [items |-> << >>, nextCursor |-> Absent]]

\* A caller starts an iteration, at any time: helloTrpc.letters is called
\* with a page size and no cursor, and the page is the first of the iteration.
LettersFirstPage ==
  \E pageSize \in 1..MaxPageSize :
    \E page \in {letters(Absent, pageSize)} :
      /\ pagination' = [pageSize |-> pageSize, items |-> page.items, pages |-> 1,
                        nextCursor |-> page.nextCursor]
      /\ lettersLast' = LettersCall(Absent, pageSize, page)

\* The caller goes on while the page before returned a nextCursor:
\* helloTrpc.letters is called with that cursor and the same page size, and
\* the page is added to those before it.
LettersNextPage ==
  \E page \in {letters(pagination.nextCursor, pagination.pageSize)} :
    /\ pagination.pages > 0
    /\ pagination.nextCursor # Absent
    /\ pagination' = [pagination EXCEPT !.items = @ \o page.items,
                                        !.pages = @ + 1,
                                        !.nextCursor = page.nextCursor]
    /\ lettersLast' = LettersCall(pagination.nextCursor, pagination.pageSize, page)

\* A call of helloTrpc.letters with any cursor and page size, outside the
\* iteration.
LettersQuery ==
  \E cursor \in CursorCodes \cup {Absent}, pageSize \in (1..MaxPageSize) \cup {Absent} :
    /\ lettersLast' = LettersCall(cursor, pageSize, letters(cursor, pageSize))
    /\ UNCHANGED pagination

\* --------------------------------------------------------- window factory

\* Cap on the BaseWindows constructed in one run of the model.
MaxBaseWindows == 2

\* The two modules that define createWindow: the first shows a window on
\* did-finish-load, the second on dom-ready. A process uses one of them.
Definitions == {"first", "second"}

\* The window types: the keys of WindowConfigs.
WindowTypes == {"main", "dashboard", "control"}

VARIABLES
  windows,           \* the Map from window type to BaseWindow id (0: no entry)
  baseWindows,       \* every BaseWindow constructed so far, by id
  winLast            \* the last step: its name, the type asked for, the id returned

factoryVars == <<windows, baseWindows, winLast>>

\* The state of the module as its functions see it.
FactoryHere == [windows |-> windows, baseWindows |-> baseWindows]

\* The record kept of a step.
FactoryOp(op, type, ret, constructed) ==
  [op |-> op, type |-> type, ret |-> ret, constructed |-> constructed]

\* new BaseWindow(...) and its WebContentsView in the module def: hidden in
\* the first definition (show: false), visible in the second; the load has
\* started and the once-listeners are registered (a dom-ready listener that
\* has run has opened DevTools in development).
newBaseWindow(def, type) ==
  [def |-> def, type |-> type,
   visible |-> def = "second",
   shownBy |-> IF def = "second" THEN {"constructor"} ELSE {},
   focused |-> FALSE,
   load |-> "loading",
   onceDomReady |-> TRUE,
   onceDidFinishLoad |-> def = "first",
   destroyed |-> FALSE,
   closed |-> FALSE]

\* A BaseWindow once destroyed: only its module, its type and whether its
\* 'closed' event has fired still matter.
destroyedWindow(wnd) ==
  [def |-> wnd.def, type |-> wnd.type,
   visible |-> FALSE, shownBy |-> {}, focused |-> FALSE,
   load |-> "gone", onceDomReady |-> FALSE, onceDidFinishLoad |-> FALSE,
   destroyed |-> TRUE, closed |-> wnd.closed]

\* window.show() by the caller named by.
show(wnd, by) == [wnd EXCEPT !.visible = TRUE, !.shownBy = @ \cup {by}]

\* createWindow(config) of the module def: an existing window of the type
\* that is not destroyed is shown, focused and returned; else a window is
\* constructed, its load started, its listeners registered, and it is put in
\* the Map.
createWindow(f, def, type) ==
  LET existingWindow == f.windows[type]
  IN  IF existingWindow # 0 /\ ~f.baseWindows[existingWindow].destroyed
      THEN [windows |-> f.windows,
            baseWindows |-> [f.baseWindows EXCEPT
                               ![existingWindow] = [show(@, "createWindow") EXCEPT
                                                      !.focused = TRUE]],
            ret |-> existingWindow,
            constructed |-> FALSE]
      ELSE [windows |-> [f.windows EXCEPT ![type] = Len(f.baseWindows) + 1],
            baseWindows |-> Append(f.baseWindows, newBaseWindow(def, type)),
            ret |-> Len(f.baseWindows) + 1,
            constructed |-> TRUE]

\* The once('dom-ready') listener of window id: DevTools in development, and
\* in the second definition window.show().
onDomReady(f, id) ==
  LET wnd == [f.baseWindows[id] EXCEPT !.onceDomReady = FALSE]
  IN  [f EXCEPT !.baseWindows[id] =
         IF wnd.def = "second" THEN show(wnd, "dom-ready") ELSE wnd]

\* The once('did-finish-load') listener of window id, which only the first
\* definition registers: window.show().
onDidFinishLoad(f, id) ==
  [f EXCEPT !.baseWindows[id] =
     [show(@, "did-finish-load") EXCEPT !.onceDidFinishLoad = FALSE]]

\* Mutant: the 'closed' listener leaves the Map as it is.
onClosedKeepsEntry(f, id) == f

\* The 'closed' listener of window id: windows.delete(config.type).
onClosed(f, id) == [f EXCEPT !.windows[f.baseWindows[id].type] = 0]

\* getWindow(type): windows.get(type) || null.
getWindow(f, type) == f.windows[type]

FactoryInit ==
  /\ windows = [type \in WindowTypes |-> 0]
  /\ baseWindows = << >>
  /\ winLast = FactoryOp("init", "", 0, FALSE)

\* A call of createWindow of the module the process uses.
CreateWindowOfType ==
  \E def \in Definitions, type \in WindowTypes :
    \E r \in {createWindow(FactoryHere, def, type)} :
      /\ \A i \in 1..Len(baseWindows) : baseWindows[i].def = def
      /\ Len(r.baseWindows) <= MaxBaseWindows
      /\ windows' = r.windows
      /\ baseWindows' = r.baseWindows
      /\ winLast' = FactoryOp("createWindow", type, r.ret, r.constructed)

\* The content of window id emits dom-ready.
DomReady(id) ==
  /\ ~baseWindows[id].destroyed
  /\ baseWindows[id].load = "loading"
  /\ \E f \in {IF baseWindows[id].onceDomReady
               THEN onDomReady(FactoryHere, id) ELSE FactoryHere} :
       /\ baseWindows' = [f.baseWindows EXCEPT ![id].load = "dom-ready"]
       /\ windows' = f.windows
  /\ winLast' = FactoryOp("dom-ready", "", id, FALSE)

\* The content of window id emits did-finish-load.
DidFinishLoad(id) ==
  /\ ~baseWindows[id].destroyed
  /\ baseWindows[id].load = "dom-ready"
  /\ \E f \in {IF baseWindows[id].onceDidFinishLoad
               THEN onDidFinishLoad(FactoryHere, id) ELSE FactoryHere} :
       /\ baseWindows' = [f.baseWindows EXCEPT ![id].load = "finished"]
       /\ windows' = f.windows
  /\ winLast' = FactoryOp("did-finish-load", "", id, FALSE)

\* The content of window id is loaded again.
Reload(id) ==
  /\ ~baseWindows[id].destroyed
  /\ baseWindows[id].load = "finished"
  /\ baseWindows' = [baseWindows EXCEPT ![id].load = "loading"]
  /\ winLast' = FactoryOp("reload", "", id, FALSE)
  /\ UNCHANGED windows

\* Window id is closed: it is marked destroyed, its 'closed' event follows.
CloseWindow(id) ==
  /\ ~baseWindows[id].destroyed
  /\ baseWindows' = [baseWindows EXCEPT ![id] = destroyedWindow(@)]
  /\ winLast' = FactoryOp("close", "", id, FALSE)
  /\ UNCHANGED windows

\* The 'closed' event of window id reaches the module's listener.
ClosedEvent(id) ==
  /\ baseWindows[id].destroyed
  /\ ~baseWindows[id].closed
  /\ \E f \in {onClosed(FactoryHere, id)} :
       /\ windows' = f.windows
       /\ baseWindows' = [f.baseWindows EXCEPT ![id].closed = TRUE]
  /\ winLast' = FactoryOp("closed", "", id, FALSE)

\* A call of getWindow.
GetWindow ==
  \E type \in WindowTypes :
    /\ winLast' = FactoryOp("getWindow", type, getWindow(FactoryHere, type), FALSE)
    /\ UNCHANGED <<windows, baseWindows>>

\* ------------------------------------------------- preload: early appearance

\* What the preload script finds when it runs: whether window.matchMedia is
\* there, answers or throws; what the media query matches; whether the root
\* element's classList and style can be written.
PreloadEnvs ==
  [matchMedia : {"absent", "present", "throws"},
   matches    : BOOLEAN,
   classList  : {"ok", "throws"},
   style      : {"ok", "throws"}]

\* The root element as the script finds it: whether it carries the 'dark'
\* class, and its color-scheme ("" when not set).
Roots == [dark : BOOLEAN, colorScheme : {"", "light", "dark"}]

VARIABLES
  preload            \* the last run of the preload script: what it found and left

preloadVars == <<preload>>

\* No run of the preload script yet.
NotRun ==
  [ran |-> FALSE,
   env |-> [matchMedia |-> "absent", matches |-> FALSE,
            classList |-> "ok", style |-> "ok"],
   before |-> [dark |-> FALSE, colorScheme |-> ""],
   root |-> [dark |-> FALSE, colorScheme |-> ""],
   caught |-> FALSE, exposed |-> FALSE]

PreloadInit == preload = NotRun

\* The preload script runs in a new document.
RunPreload ==
  \E env \in PreloadEnvs, root \in Roots :
    preload' = preloadScript(env, root)

\* ---------------------------------------------------------- specification

\* The variables of the parts other than appearance synchronisation.
\* The variables of the tRPC server, the window factory, the preload script
\* and the pure functions.
laterVars == <<trpcVars, normalizeVars, lettersVars, factoryVars, preloadVars>>

\* The variables of the appearance, tray, client and queue models.
earlierVars == <<vars, trayVars, clientVars, serialVars>>

otherVars == <<trayVars, clientVars, serialVars, laterVars>>

\* Every variable of the module.
allVars == <<vars, otherVars>>

\* The state after process start in every part.
InitAll == Init /\ TrayInit /\ ClientInit /\ SerialInit /\ TrpcInit
           /\ NormalizeInit /\ LettersInit /\ FactoryInit /\ PreloadInit

\* Process restart: the process has exited, its quit handlers done, and a new
\* one has started and loaded no module yet. Everything the old process and
\* its windows held in memory is gone: nativeTheme.themeSource, the handlers
\* and listeners, the windows with the messages in flight to them, the tray,
\* the tRPC server, the window registry, the calls issued or waiting; every
\* part is as at process start. The Preference Store row, the OS signal and
\* the build stay.
Restart ==
  /\ themeSource' = "system"
  /\ handleRegistered' = FALSE
  /\ listeners' = 0
  /\ win' = [w \in Windows |-> NoWindow]
  /\ chan' = [w \in Windows |-> << >>]
  /\ log' = << >>
  /\ last' = Op("restart", "", TRUE, "", NoSnap)
  /\ appTray' = 0
  /\ trays' = << >>
  /\ trayLast' = [op |-> "init", arg |-> "", ret |-> 0, outcome |-> "ok"]
  /\ sentSeq' = 0
  /\ appliedSeq' = 0
  /\ phase' = "Unattached"
  /\ calls' = [w \in Callers |-> << >>]
  /\ queue' = << >>
  /\ busy' = NoCall
  /\ arrived' = NoCall
  /\ ENDPOINT_PATH' = NotLoaded
  /\ isDev' = FALSE
  /\ exchange' = NoExchange
  /\ lastCall' = "none"
  /\ server' = 0
  /\ httpServers' = << >>
  /\ awaiting' = 0
  /\ trpcLast' = TrpcOp("init", TRUE, 0)
  /\ normalized' = NotNormalized
  /\ pagination' = NotStarted
  /\ lettersLast' = [called |-> FALSE, cursor |-> Absent, pageSize |-> Absent,
                     page |-> [items |-> << >>, nextCursor |-> Absent]]
  /\ windows' = [type \in WindowTypes |-> 0]
  /\ baseWindows' = << >>
  /\ winLast' = FactoryOp("init", "", 0, FALSE)
  /\ preload' = NotRun
  /\ UNCHANGED <<osDark, stored, bridge>>

\* Appearance synchronisation: the Coordinator with the handlers of the
\* specification, the windows and the OS; a restart apart, the other parts
\* are left alone.
Next ==
  \/ SetupAppearanceIpc /\ Backlog(MaxBacklog) /\ UNCHANGED otherVars
  \/ AppearanceGet /\ UNCHANGED otherVars
  \/ InvokeUnhandled /\ UNCHANGED otherVars
  \/ OsThemeChanged /\ Backlog(MaxBacklog) /\ UNCHANGED otherVars
  \/ TransportSetThemeSource /\ Backlog(MaxBacklog) /\ UNCHANGED otherVars
  \/ Restart
  \/ \E w \in Windows : CreateWindow(w) /\ UNCHANGED otherVars
  \/ \E w \in Windows : Preload(w) /\ UNCHANGED otherVars
  \/ \E w \in Windows : Mount(w) /\ UNCHANGED otherVars
  \/ \E w \in Windows : Deliver(w) /\ UNCHANGED otherVars
  \/ \E w \in Windows : ReceiveUntrusted(w) /\ UNCHANGED otherVars
  \/ \E w \in Windows : OnChangeThemeSource(w) /\ UNCHANGED otherVars
  \/ \E w \in Windows : TearDown(w) /\ UNCHANGED otherVars
  \/ \E w \in Windows : Remove(w) /\ UNCHANGED otherVars

Spec == InitAll /\ [][Next]_allVars

\* Appearance synchronisation with the operations implemented in the main
\* process only: setup, the appearance:get request, OS theme changes, process
\* restart and the windows' life.
NextSystemOnly ==
  \/ SetupAppearanceIpc /\ UNCHANGED otherVars
  \/ AppearanceGet /\ UNCHANGED otherVars
  \/ OsThemeChanged /\ UNCHANGED otherVars
  \/ Restart
  \/ \E w \in Windows : CreateWindow(w) /\ UNCHANGED otherVars
  \/ \E w \in Windows : Preload(w) /\ UNCHANGED otherVars
  \/ \E w \in Windows : Mount(w) /\ UNCHANGED otherVars
  \/ \E w \in Windows : Deliver(w) /\ UNCHANGED otherVars
  \/ \E w \in Windows : OnChangeThemeSource(w) /\ UNCHANGED otherVars
  \/ \E w \in Windows : TearDown(w) /\ UNCHANGED otherVars
  \/ \E w \in Windows : Remove(w) /\ UNCHANGED otherVars

SpecSystemOnly == InitAll /\ [][NextSystemOnly]_allVars

\* One window with its messages in flight.
NextClient ==
  \/ ClientSetup /\ UNCHANGED <<trayVars, serialVars, laterVars>>
  \/ ClientCreateWindow /\ UNCHANGED <<trayVars, serialVars, laterVars>>
  \/ ClientPreload /\ UNCHANGED <<trayVars, serialVars, laterVars>>
  \/ ClientMount /\ UNCHANGED <<trayVars, serialVars, laterVars>>
  \/ ClientDetach /\ UNCHANGED <<trayVars, serialVars, laterVars>>
  \/ ClientTearDown /\ UNCHANGED <<trayVars, serialVars, laterVars>>
  \/ ClientRemove /\ UNCHANGED <<trayVars, serialVars, laterVars>>
  \/ ClientDeliver /\ UNCHANGED <<trayVars, serialVars, laterVars>>
  \/ ClientReceiveUntrusted /\ UNCHANGED <<trayVars, serialVars, laterVars>>
  \/ ClientOsThemeChanged /\ UNCHANGED <<trayVars, serialVars, laterVars>>
  \/ ClientOnChangeThemeSource /\ UNCHANGED <<trayVars, serialVars, laterVars>>
  \/ ClientSetThemeSource /\ UNCHANGED <<trayVars, serialVars, laterVars>>

SpecClient == InitAll /\ [][NextClient]_allVars

\* setThemeSource calls of several windows, one processed at a time.
NextSerial ==
  \/ SerialSetup /\ UNCHANGED <<trayVars, clientVars, laterVars>>
  \/ \E w \in Callers : SerialCreateWindow(w) /\ UNCHANGED <<trayVars, clientVars, laterVars>>
  \/ \E w \in Callers : SerialPreload(w) /\ UNCHANGED <<trayVars, clientVars, laterVars>>
  \/ \E w \in Callers : SerialMount(w) /\ UNCHANGED <<trayVars, clientVars, laterVars>>
  \/ \E w \in Callers : SerialDeliver(w) /\ UNCHANGED <<trayVars, clientVars, laterVars>>
  \/ \E w \in Callers : SerialCall(w) /\ UNCHANGED <<trayVars, clientVars, laterVars>>
  \/ \E w \in Callers : SerialArrive(w) /\ UNCHANGED <<trayVars, clientVars, laterVars>>
  \/ SerialBegin /\ Backlog(MaxBacklog) /\ UNCHANGED <<trayVars, clientVars, laterVars>>
  \/ SerialFinish /\ Backlog(MaxBacklog) /\ UNCHANGED <<trayVars, clientVars, laterVars>>

SpecSerial == InitAll /\ [][NextSerial]_allVars

\* Two windows and setThemeSource calls, where a message in flight to a
\* window eventually arrives and no window is torn down.
NextBroadcast ==
  \/ SetupAppearanceIpc /\ Backlog(MaxBacklog) /\ UNCHANGED otherVars
  \/ TransportSetThemeSource /\ Backlog(MaxBacklog) /\ UNCHANGED otherVars
  \/ \E w \in Windows : CreateWindow(w) /\ UNCHANGED otherVars
  \/ \E w \in Windows : Preload(w) /\ UNCHANGED otherVars
  \/ \E w \in Windows : Mount(w) /\ UNCHANGED otherVars
  \/ \E w \in Windows : Deliver(w) /\ UNCHANGED otherVars

SpecBroadcastFair ==
  /\ InitAll /\ [][NextBroadcast]_allVars
  /\ \A w \in Windows : WF_vars(Deliver(w))

\* The tray module alone: any sequence of calls of its exported functions.
NextTray ==
  \/ CreateAppTray /\ UNCHANGED <<vars, clientVars, serialVars, laterVars>>
  \/ SetTrayMenu /\ UNCHANGED <<vars, clientVars, serialVars, laterVars>>
  \/ SetTrayTooltip /\ UNCHANGED <<vars, clientVars, serialVars, laterVars>>
  \/ GetTray /\ UNCHANGED <<vars, clientVars, serialVars, laterVars>>
  \/ DestroyAppTray /\ UNCHANGED <<vars, clientVars, serialVars, laterVars>>

SpecTray == InitAll /\ [][NextTray]_allVars

\* The tRPC server module: any interleaving of start calls, stop calls and
\* close completions.
NextTrpc ==
  \/ LoadModule /\ UNCHANGED <<earlierVars, normalizeVars, lettersVars, factoryVars, preloadVars>>
  \/ Request /\ UNCHANGED <<earlierVars, normalizeVars, lettersVars, factoryVars, preloadVars>>
  \/ ResponseSent /\ UNCHANGED <<earlierVars, normalizeVars, lettersVars, factoryVars, preloadVars>>
  \/ StartTrpcServer /\ UNCHANGED <<earlierVars, normalizeVars, lettersVars, factoryVars, preloadVars>>
  \/ StopTrpcServer /\ UNCHANGED <<earlierVars, normalizeVars, lettersVars, factoryVars, preloadVars>>
  \/ CloseCompleted /\ UNCHANGED <<earlierVars, normalizeVars, lettersVars, factoryVars, preloadVars>>

SpecTrpc == InitAll /\ [][NextTrpc]_allVars

\* normalizeEndpointPath applied to any pathname, and to its own results.
NextNormalize ==
  \/ NormalizePathname /\ UNCHANGED <<earlierVars, trpcVars, lettersVars, factoryVars, preloadVars>>
  \/ NormalizeAgain /\ UNCHANGED <<earlierVars, trpcVars, lettersVars, factoryVars, preloadVars>>

SpecNormalize == InitAll /\ [][NextNormalize]_allVars

\* The letters query: calls with any input, and an iteration over the pages.
NextLetters ==
  \/ LettersFirstPage /\ UNCHANGED <<earlierVars, trpcVars, normalizeVars, factoryVars, preloadVars>>
  \/ LettersNextPage /\ UNCHANGED <<earlierVars, trpcVars, normalizeVars, factoryVars, preloadVars>>
  \/ LettersQuery /\ UNCHANGED <<earlierVars, trpcVars, normalizeVars, factoryVars, preloadVars>>

SpecLetters == InitAll /\ [][NextLetters]_allVars

\* The window modules: calls of createWindow and getWindow, and the events of
\* the windows constructed.
NextFactory ==
  \/ CreateWindowOfType /\ UNCHANGED <<earlierVars, trpcVars, normalizeVars, lettersVars, preloadVars>>
  \/ GetWindow /\ UNCHANGED <<earlierVars, trpcVars, normalizeVars, lettersVars, preloadVars>>
  \/ \E id \in 1..Len(baseWindows) :
       DomReady(id) /\ UNCHANGED <<earlierVars, trpcVars, normalizeVars, lettersVars, preloadVars>>
  \/ \E id \in 1..Len(baseWindows) :
       DidFinishLoad(id) /\ UNCHANGED <<earlierVars, trpcVars, normalizeVars, lettersVars, preloadVars>>
  \/ \E id \in 1..Len(baseWindows) :
       Reload(id) /\ UNCHANGED <<earlierVars, trpcVars, normalizeVars, lettersVars, preloadVars>>
  \/ \E id \in 1..Len(baseWindows) :
       CloseWindow(id) /\ UNCHANGED <<earlierVars, trpcVars, normalizeVars, lettersVars, preloadVars>>
  \/ \E id \in 1..Len(baseWindows) :
       ClosedEvent(id) /\ UNCHANGED <<earlierVars, trpcVars, normalizeVars, lettersVars, preloadVars>>

SpecFactory == InitAll /\ [][NextFactory]_allVars

\* The preload script alone, run in any document.
NextPreload ==
  \/ RunPreload /\ UNCHANGED <<earlierVars, trpcVars, normalizeVars, lettersVars, factoryVars>>

SpecPreload == InitAll /\ [][NextPreload]_allVars

\* ------------------------------------------------------------- properties

\* The snapshots the last operation produced: the one it returned to its
\* caller and the one each of its broadcast cycles sent.
Produced ==
  (IF last.op \in {"appearance:get", "setThemeSource"} /\ last.snap # NoSnap
   THEN {last.snap} ELSE {})
  \cup {log[k].snapshot : k \in 1..Len(log)}

\* The snapshots of earlier broadcasts that are still in flight to a window.
InFlightSnapshots ==
  UNION {{chan[w][i] : i \in 1..Len(chan[w])} : w \in Windows}

\* The last broadcast cycle of the last operation.
LastCycle == log[Len(log)]

\* The windows whose webContents is in the registry with a live channel.
Live == {w \in Windows : win[w].status \in {"loading", "attached", "mounted", "subscribed"}}

\* The message sent last to window w, still in flight, is s.
LastInFlight(w, s) == chan[w] # << >> /\ chan[w][Len(chan[w])] = s

\* The snapshot of a forced 'light' mode.
LightSnapshot == [themeSource |-> "light", shouldUseDarkColors |-> FALSE]

\* C1: in every reachable state, every snapshot the Coordinator produced
\* (returned by appearance:get, returned by setThemeSource, or sent in a
\* broadcast, in flight or not) with a themeSource other than 'system' has an effective dark
\* flag equal to (themeSource = 'dark').
C1_ForcedModeDecidesFlag ==
  \A s \in Produced \cup InFlightSnapshots :
    s.themeSource # "system" => (s.shouldUseDarkColors = (s.themeSource = "dark"))

\* C1 witness: a forced 'light' snapshot was returned and broadcast to a
\* subscribed window while the OS signal says dark.
C1_Witness ==
  /\ last.op = "setThemeSource" /\ last.outcome = "ok"
  /\ last.snap = [themeSource |-> "light", shouldUseDarkColors |-> FALSE]
  /\ osDark
  /\ \E w \in Windows : win[w].status = "subscribed" /\ w \in LastCycle.sent

\* C2: a setThemeSource call with a value outside {system, light, dark} ends
\* with InvalidArgument and leaves the Preference Store, the follow mode and
\* every window unchanged, with no broadcast cycle run and no message sent.
C2_InvalidArgumentRejected ==
  [][ (last'.op = "setThemeSource" /\ last'.arg \notin {"system", "light", "dark"})
      => /\ last'.outcome = "InvalidArgument"
         /\ stored' = stored
         /\ themeSource' = themeSource
         /\ win' = win
         /\ chan' = chan
         /\ log' = << >> ]_vars

\* C2 witness: 'blue' was rejected while a forced mode was stored and applied
\* and a window was subscribed.
C2_Witness ==
  /\ last.op = "setThemeSource" /\ last.arg = "blue"
  /\ last.outcome = "InvalidArgument"
  /\ stored = "dark" /\ themeSource = "dark"
  /\ \E w \in Windows : win[w].status = "subscribed"

\* After a setThemeSource('light') call the Coordinator accepted, it ran at
\* least one broadcast cycle, every cycle carried {light, false}, and every
\* window with a live channel (the originator included) was sent it in every
\* cycle; it is the message sent last to each of them.
LightBroadcastToAll ==
  (last.op = "setThemeSource" /\ last.arg = "light")
  => /\ Len(log) >= 1
     /\ \A k \in 1..Len(log) :
          /\ log[k].snapshot = LightSnapshot
          /\ Live \subseteq log[k].sent
     /\ \A w \in Live : LastInFlight(w, LightSnapshot)

\* A setThemeSource('light') call has returned with both windows subscribed.
LightCallWithBothSubscribed ==
  /\ last.op = "setThemeSource" /\ last.arg = "light"
  /\ win[1].status = "subscribed" /\ win[2].status = "subscribed"

\* The callback of window w has just been handed {light, false}.
LightDelivered(w) ==
  /\ last.op = "deliver" /\ last.w = w
  /\ last.outcome = "applied" /\ last.snap = LightSnapshot

\* C3: a setThemeSource('light') call sends {light, false} to every window with
\* a live channel in each of its broadcast cycles, and with two subscribed
\* windows the snapshot is eventually handed to the callback of each of them,
\* in whichever order the two messages arrive.
C3_BothWindowsReceiveLight ==
  /\ []LightBroadcastToAll
  /\ \A w \in {1, 2} : LightCallWithBothSubscribed ~> LightDelivered(w)

\* C3 witness: both windows subscribed, the call's message has arrived at
\* window 1 first and now at window 2, each handed {light, false}.
C3_Witness ==
  /\ LightDelivered(2)
  /\ win[1].status = "subscribed" /\ win[2].status = "subscribed"
  /\ win[1].displayed = "light" /\ win[2].displayed = "light"
  /\ chan[1] = << >> /\ chan[2] = << >>
  /\ themeSource = "light"

\* C4: in every broadcast cycle in which a send threw, no exception left the
\* loop, the snapshot is the current one, and every window in the registry
\* with a live channel was sent it: it is the message sent last to each.
C4_DeliveryFailureIsolated ==
  \A k \in 1..Len(log) :
    log[k].threw # {}
    => /\ ~log[k].raised
       /\ log[k].snapshot = getSnapshot(themeSource, osDark)
       /\ Live \subseteq log[k].sent
       /\ \A w \in Live : LastInFlight(w, log[k].snapshot)

\* C4 witness: window 1, first in the registry, is torn down and its send
\* threw; window 2, subscribed, was still sent the snapshot.
C4_Witness ==
  /\ Len(log) >= 1
  /\ LastCycle.threw = {1}
  /\ win[2].status = "subscribed" /\ 2 \in LastCycle.sent
  /\ LastInFlight(2, LastCycle.snapshot)

\* C5: while the follow mode is 'system', an OS signal flip changes the
\* effective dark flag of getSnapshot, runs a broadcast cycle when the
\* Coordinator's listener is registered, and leaves the Preference Store's
\* themeSource as it was.
C5_OsChangeKeepsStore ==
  [][ (themeSource = "system" /\ last'.op = "osThemeChanged")
      => /\ getSnapshot(themeSource', osDark').shouldUseDarkColors
              # getSnapshot(themeSource, osDark).shouldUseDarkColors
         /\ getSnapshot(themeSource', osDark').shouldUseDarkColors = osDark'
         /\ (listeners >= 1 => Len(log') >= 1)
         /\ stored' = stored ]_vars

\* C5 witness: under 'system' the OS flipped to dark, a subscribed window was
\* sent the broadcast, and the store still holds 'system'.
C5_Witness ==
  /\ last.op = "osThemeChanged" /\ themeSource = "system" /\ osDark
  /\ stored = "system"
  /\ Len(log) = 1
  /\ \E w \in Windows : win[w].status = "subscribed" /\ w \in LastCycle.sent

\* C6: after a completed setup call (initialize) the in-memory themeSource
\* equals the persisted value; so after a persisted setThemeSource('dark') and
\* a restart it is 'dark'.
C6_InitializeRestoresPersisted ==
  (last.op = "setupAppearanceIpc" /\ last.outcome = "ok") => themeSource = stored

\* C7: the number of 'updated' listeners is one once setup has been called
\* (however often) and zero before; an OS change that changes the effective
\* mode then runs exactly one broadcast cycle with one delivery attempt per
\* window in the registry.
C7_ExactlyOneListener ==
  /\ listeners = IF handleRegistered THEN 1 ELSE 0
  /\ (last.op = "osThemeChanged" /\ last.outcome = "emitted" /\ handleRegistered)
     => /\ Len(log) = 1
        /\ log[1].sent \cup log[1].threw = {w \in Windows : InRegistry(win[w])}
        /\ log[1].sent \cap log[1].threw = {}

\* C7 witness: a second setup call was made and there is still one listener.
C7_Witness ==
  /\ last.op = "setupAppearanceIpc" /\ last.outcome = "threw"
  /\ listeners = 1

\* C8: a payload that is not a well-formed snapshot (themeSource among the
\* three values and a boolean shouldUseDarkColors) arriving at a subscribed
\* window is discarded and leaves every window's dark class, color-scheme hint
\* and displayed themeSource as they were.
C8_MalformedPayloadDiscarded ==
  [][ (last'.op = "receiveUntrusted"
       /\ last'.snap \notin [themeSource : {"system", "light", "dark"},
                             shouldUseDarkColors : BOOLEAN])
      => /\ last'.outcome = "discarded"
         /\ win' = win ]_vars

\* C8 witness: a malformed payload was discarded by a window that had applied
\* a forced 'light' snapshot before.
C8_Witness ==
  /\ last.op = "receiveUntrusted" /\ last.outcome = "discarded"
  /\ \E w \in Windows : win[w].status = "subscribed" /\ win[w].displayed = "light"

\* C9: when a snapshot the Coordinator broadcast arrives at a subscribed
\* window and its callback has run, the window has the 'dark' class iff the
\* snapshot's effective dark flag is true, the color-scheme hint 'dark' iff
\* the flag is true, and displays the snapshot's themeSource.
C9_WindowAppliesSnapshot ==
  [][ (last'.op = "deliver" /\ last'.outcome = "applied")
      => /\ win'[last'.w].dark = last'.snap.shouldUseDarkColors
         /\ (win'[last'.w].colorScheme = "dark") = last'.snap.shouldUseDarkColors
         /\ win'[last'.w].displayed = last'.snap.themeSource ]_vars

\* C10: a setThemeSource(next) call with a valid next during which the
\* Preference Store write fails ends with PersistenceFailed, sets the follow
\* mode to next, keeps the stored value, and runs a broadcast cycle carrying
\* themeSource = next to every window with a live channel.
C10_PersistenceFailureStillApplies ==
  [][ (last'.op = "setThemeSource" /\ last'.arg \in {"system", "light", "dark"}
       /\ ~last'.ioOk)
      => /\ last'.outcome = "PersistenceFailed"
         /\ themeSource' = last'.arg
         /\ stored' = stored
         /\ Len(log') >= 1
         /\ log'[Len(log')].snapshot.themeSource = last'.arg
         /\ Live \subseteq log'[Len(log')].sent
         /\ \A w \in Live :
              chan'[w] # << >> /\ chan'[w][Len(chan'[w])].themeSource = last'.arg ]_vars

\* C10 witness: the write of 'dark' failed with 'light' stored; the follow
\* mode is 'dark' and a subscribed window was sent the broadcast.
C10_Witness ==
  /\ last.op = "setThemeSource" /\ last.arg = "dark" /\ ~last.ioOk
  /\ last.outcome = "PersistenceFailed"
  /\ themeSource = "dark" /\ stored = "light"
  /\ \E w \in Windows : win[w].status = "subscribed" /\ w \in LastCycle.sent

\* What a setThemeSource call leaves with the Coordinator: the follow mode,
\* the stored preference, the snapshot of its last broadcast cycle and the
\* snapshot getSnapshot gives afterwards.
LeftBy(r) ==
  [themeSource |-> r.m.themeSource,
   stored |-> r.m.stored,
   broadcast |-> r.m.log[Len(r.m.log)].snapshot,
   snapshot |-> getSnapshot(r.m.themeSource, r.m.osDark)]

C14_GetSnapshotPureRead ==
  [][ last'.op = "appearance:get"
      => /\ last'.outcome = "ok"
         /\ last'.snap = [themeSource |-> themeSource,
                          shouldUseDarkColors |->
                            IF themeSource = "system" THEN osDark
                            ELSE themeSource = "dark"]
         /\ themeSource' = themeSource /\ osDark' = osDark
         /\ stored' = stored
         /\ handleRegistered' = handleRegistered /\ listeners' = listeners
         /\ win' = win
         /\ chan' = chan
         /\ log' = << >> ]_vars

\* C14 witness: a read under a forced 'light' mode with the OS dark and a
\* subscribed window present.
C14_Witness ==
  /\ last.op = "appearance:get"
  /\ last.snap = [themeSource |-> "light", shouldUseDarkColors |-> FALSE]
  /\ osDark /\ stored = "light"
  /\ \E w \in Windows : win[w].status = "subscribed"

\* C17: the follow mode a window finds applied when it is created right
\* after a completed setup call (initialize) is the stored themeSource.
C17_StoredModeAppliedBeforeWindows ==
  [][ (/\ last.op = "setupAppearanceIpc" /\ last.outcome = "ok"
       /\ last'.op = "window"
       /\ \E w \in Windows : win[w].status = "none" /\ win'[w].status = "loading")
      => themeSource = stored ]_vars

\* C19: while a tray exists, no call other than destroyAppTray constructs a
\* Tray or changes the reference; a createAppTray call then returns the
\* existing tray, keeps its tooltip, and changes its context menu only when a
\* menu is given; at most one constructed Tray is ever alive.
C19_CreateAppTrayIdempotentSingleton ==
  [][ /\ Cardinality({i \in 1..Len(trays') : ~trays'[i].destroyed}) <= 1
      /\ (appTray # 0 /\ trayLast'.op # "destroyAppTray")
         => /\ Len(trays') = Len(trays)
            /\ appTray' = appTray
            /\ trayLast'.op = "createAppTray"
               => /\ trayLast'.outcome = "ok"
                  /\ trayLast'.ret = appTray
                  /\ trays' = IF trayLast'.arg = "undefined" THEN trays
                              ELSE [trays EXCEPT ![appTray].menu = trayLast'.arg] ]_trayVars

\* C19 witness: createAppTray('menuA') returned the one tray ever constructed,
\* whose tooltip had been changed before the call and is kept.
C19_Witness ==
  /\ trayLast.op = "createAppTray" /\ trayLast.arg = "menuA"
  /\ Len(trays) = 1 /\ appTray = 1 /\ trayLast.ret = 1
  /\ trays[1] = [destroyed |-> FALSE, menu |-> "menuA", tooltip |-> "tipB"]

\* C20: destroyAppTray always returns, clears the reference and destroys the
\* tray it referred to, changing nothing when there was none; while there is
\* no tray, getTray returns null and setTrayMenu and setTrayTooltip change
\* nothing; the reference and every Tray returned by getTray or createAppTray
\* are never a destroyed Tray; createAppTray with no tray constructs a new one.
C20_DestroyAppTraySafe ==
  [][ /\ trayLast'.outcome = "ok"
      /\ appTray' # 0 => ~trays'[appTray'].destroyed
      /\ (trayLast'.op \in {"getTray", "createAppTray"} /\ trayLast'.ret # 0)
         => ~trays'[trayLast'.ret].destroyed
      /\ trayLast'.op = "destroyAppTray"
         => /\ appTray' = 0
            /\ trays' = IF appTray = 0 THEN trays
                        ELSE [trays EXCEPT ![appTray] = DestroyedTray]
      /\ (appTray = 0 /\ trayLast'.op = "getTray") => trayLast'.ret = 0
      /\ (appTray = 0 /\ trayLast'.op \in {"setTrayMenu", "setTrayTooltip"})
         => (trays' = trays /\ appTray' = 0)
      /\ (appTray = 0 /\ trayLast'.op = "createAppTray")
         => /\ Len(trays') = Len(trays) + 1
            /\ appTray' = Len(trays') /\ trayLast'.ret = appTray'
            /\ \A i \in 1..Len(trays) : trays'[i] = trays[i] ]_trayVars

\* C20 witness: after a tray was destroyed, createAppTray constructed a second
\* one, which is the one referred to and returned.
C20_Witness ==
  /\ trayLast.op = "createAppTray" /\ trayLast.ret = 2
  /\ Len(trays) = 2 /\ trays[1].destroyed /\ ~trays[2].destroyed
  /\ appTray = 2

\* C18: once setupAppearanceIpc has run, as long as only OS theme changes and
\* appearance:get requests (and the windows' life) happen, the current
\* snapshot and every snapshot returned or broadcast have themeSource 'system'
\* and a dark flag equal to the OS dark signal, and the Preference Store holds
\* no preference (its themeSource is the default 'system').
C18_SystemFollowingOnly ==
  handleRegistered
  => /\ getSnapshot(themeSource, osDark)
          = [themeSource |-> "system", shouldUseDarkColors |-> osDark]
     /\ \A s \in Produced :
          s = [themeSource |-> "system", shouldUseDarkColors |-> osDark]
     /\ stored = "system"

\* C18 witness: after the OS turned dark with a subscribed window present, a
\* broadcast carried {system, true}.
C18_Witness ==
  /\ handleRegistered /\ osDark
  /\ last.op = "osThemeChanged"
  /\ Len(log) = 1
  /\ LastCycle.snapshot = [themeSource |-> "system", shouldUseDarkColors |-> TRUE]
  /\ \E w \in Windows : win[w].status = "subscribed" /\ w \in LastCycle.sent

\* C13: the snapshots a window receives arrive in the order the Coordinator
\* produced them: every message in flight is newer than the one the window's
\* callback applied last, the callback never applies a message older than one
\* it has applied, and once the most recent broadcast has been delivered and
\* applied the window's applied state is that snapshot's: it displays the
\* Coordinator's mode, has the 'dark' class iff the snapshot's effective dark
\* flag is true, and the color-scheme hint 'dark' iff the flag is true.
C13_SnapshotsInProductionOrder ==
  [][/\ appliedSeq' <= sentSeq' - Len(chan'[ClientWindow])
     /\ (last'.op = "deliver" /\ appliedSeq' # appliedSeq
           => appliedSeq' > appliedSeq)
     /\ (last'.op = "deliver" /\ appliedSeq' # appliedSeq
         /\ appliedSeq' = sentSeq'
           => /\ win'[ClientWindow].displayed = themeSource'
              /\ win'[ClientWindow].dark = last'.snap.shouldUseDarkColors
              /\ (win'[ClientWindow].colorScheme = "dark")
                   = last'.snap.shouldUseDarkColors)]_allVars

\* C15: unsubscribe never fails and changes nothing but the subscription,
\* whether the window was subscribed or not, and a broadcast that arrives at
\* a window that is not subscribed leaves that window as it was.
C15_DetachIdempotentAndFinal ==
  [][/\ (last'.op = "detach"
           => /\ last'.outcome = "ok"
              /\ win'[ClientWindow].status = "attached"
              /\ win'[ClientWindow] = [win[ClientWindow] EXCEPT !.status = "attached"]
              /\ UNCHANGED <<chan, appliedSeq, phase, themeSource, stored>>)
     /\ (last'.op = "deliver" /\ win[ClientWindow].status # "subscribed"
           => /\ win'[ClientWindow] = win[ClientWindow]
              /\ UNCHANGED <<appliedSeq, phase>>)]_allVars

\* C15 witness: a window that had applied a snapshot was detached, a later
\* broadcast of another mode arrived without changing what the window shows,
\* and unsubscribe was then called again on the window, not subscribed any more.
C15_Witness ==
  /\ last.op = "detach"
  /\ last.arg = "attached"
  /\ win[ClientWindow].status = "attached"
  /\ phase = "Synced"
  /\ appliedSeq < sentSeq
  /\ chan[ClientWindow] = << >>
  /\ win[ClientWindow].displayed # themeSource

\* The steps a window's phase may take.
PhaseSteps ==
  { <<"Unattached", "ProvisionalApplied">>,
    <<"ProvisionalApplied", "Synced">>,
    <<"ProvisionalApplied", "Unattached">>,
    <<"Synced", "Unattached">> }

\* C16: a window goes from Unattached to ProvisionalApplied to Synced: it is
\* Unattached exactly while it does not exist or no script has run in it, it
\* becomes ProvisionalApplied by the preload's early application with nothing
\* applied by the callback, it leaves ProvisionalApplied
\* for Synced only by applying a snapshot of the Coordinator, and it leaves
\* Synced only by being destroyed.
C16_WindowStateMachine ==
  [][/\ (phase' # phase => <<phase, phase'>> \in PhaseSteps)
     /\ (phase' = "Unattached"
           <=> win'[ClientWindow].status \in {"none", "loading", "torn"})
     /\ (phase' = "Unattached" /\ phase # "Unattached"
           => win[ClientWindow].status \in {"attached", "mounted", "subscribed"})
     /\ (phase' = "ProvisionalApplied"
           => /\ appliedSeq' = 0
              /\ win'[ClientWindow].dark = (win'[ClientWindow].colorScheme = "dark"))
     /\ (phase' = "Synced" => appliedSeq' > 0)
     /\ (phase' = "Synced" /\ phase = "ProvisionalApplied"
           => last'.op = "deliver" /\ appliedSeq' > 0)]_allVars

\* C16 witness: a Synced window has applied a further snapshot and stayed
\* Synced.
C16_Witness ==
  /\ phase = "Synced"
  /\ last.op = "deliver"
  /\ appliedSeq >= 2
  /\ win[ClientWindow].status = "subscribed"

\* Every call a window made has finished: none is on its way, waiting or
\* under way, and no message is in flight to a window.
AllCallsFinished ==
  /\ \A w \in Callers : calls[w] = << >>
  /\ queue = << >>
  /\ busy = NoCall
  /\ \A w \in Windows : chan[w] = << >>

Open == {i \in 1..Len(httpServers) : httpServers[i].state # "closed"}

\* C21: a startTrpcServer call that finds the handle set changes nothing; a
\* call that finds it null creates one server, listens once on it and sets
\* the handle to it; so there is never more than one server that is not
\* closed, and every server was listened on once.
C21_StartTrpcServerIdempotent ==
  [][/\ (trpcLast'.op = "start" /\ server # 0
           => UNCHANGED <<server, httpServers, awaiting>>)
     /\ (trpcLast'.op = "start" /\ server = 0
           => /\ Len(httpServers') = Len(httpServers) + 1
              /\ server' = Len(httpServers')
              /\ SubSeq(httpServers', 1, Len(httpServers)) = httpServers
              /\ httpServers'[server'] = [state |-> "listening", listens |-> 1])
     /\ Cardinality({i \in 1..Len(httpServers') : httpServers'[i].state # "closed"}) <= 1
     /\ \A i \in 1..Len(httpServers') : httpServers'[i].listens = 1]_allVars

\* C21 witness: a start call found the handle set, and the only server ever
\* created is still the one listening.
C21_Witness ==
  /\ trpcLast.op = "start"
  /\ trpcLast.found = 1
  /\ server = 1
  /\ Len(httpServers) = 1
  /\ httpServers[1].state = "listening"

\* C22: a stopTrpcServer call that finds no server resolves at once and
\* changes nothing; a call that finds a server does not resolve and leaves the
\* handle set while the close runs; suspended calls resolve only in the step
\* in which the close has completed and the handle is cleared.
C22_StopTrpcServerIdempotent ==
  [][/\ (trpcLast'.op = "stop" /\ server = 0
           => /\ trpcLast'.done
              /\ UNCHANGED <<server, httpServers, awaiting>>)
     /\ (trpcLast'.op = "stop" /\ server # 0
           => /\ ~trpcLast'.done
              /\ server' = server
              /\ httpServers'[server].state = "closing"
              /\ awaiting' = awaiting + 1)
     /\ (awaiting' < awaiting
           => /\ httpServers'[server].state = "closed"
              /\ server' = 0
              /\ awaiting' = 0)]_allVars

\* C22 witness: a stop call made after an earlier stop had completed found no
\* server and resolved at once.
C22_Witness ==
  /\ trpcLast.op = "stop"
  /\ trpcLast.done
  /\ trpcLast.found = 0
  /\ Len(httpServers) = 1
  /\ httpServers[1].state = "closed"
  /\ awaiting = 0

\* C27: in every reachable state the handle is set exactly when a created
\* server has not been closed, a listening server is the one the handle
\* names, and when no stop call is suspended and the last call issued was a
\* start, the server is running.
C27_HandleTracksServer ==
  /\ (server # 0) = (Open # {})
  /\ \A i \in 1..Len(httpServers) : httpServers[i].state = "listening" => server = i
  /\ (awaiting = 0 /\ lastCall = "start"
        => server # 0 /\ httpServers[server].state = "listening")

\* C23: every OPTIONS request gets 204 and does not reach the tRPC handler;
\* any other request reaches the handler exactly when its pathname is the
\* endpoint path or starts with the endpoint path and a slash, the handler
\* is then given the rest of the pathname ('/' when nothing remains) followed
\* by the query string; and a request that does not reach the handler gets 404.
C23_OnlyEndpointRequestsReachHandler ==
  exchange # NoExchange =>
    LET r == exchange.response
        pathname == incomingUrl(exchange.url).pathname
        rest == SubSeq(pathname, Len(ENDPOINT_PATH) + 1, Len(pathname))
        under == \/ pathname = ENDPOINT_PATH
                 \/ /\ Len(pathname) > Len(ENDPOINT_PATH)
                    /\ SubSeq(pathname, 1, Len(ENDPOINT_PATH) + 1) = ENDPOINT_PATH \o <<"/">>
    IN  IF exchange.method = "OPTIONS"
        THEN r.status = 204 /\ ~r.handled
        ELSE /\ r.handled = under
             /\ (r.handled
                   => r.handlerUrl = (IF rest = << >> THEN <<"/">> ELSE rest)
                                       \o incomingUrl(exchange.url).search)
             /\ (~r.handled => r.status = 404)

\* C25: every result of normalizeEndpointPath has a leading slash and no
\* trailing slash unless it is the root, normalizing a result returns it, and
\* 't', 't/', '/t/' and '/t' all give '/t'.
C25_NormalizedLeadingNoTrailing ==
  normalized.called =>
    /\ Len(normalized.output) >= 1
    /\ normalized.output[1] = "/"
    /\ (Len(normalized.output) > 1 => normalized.output[Len(normalized.output)] # "/")
    /\ normalizeEndpointPath(normalized.output) = normalized.output
    /\ (normalized.input \in {<<"t">>, <<"t", "/">>, <<"/", "t", "/">>, <<"/", "t">>}
          => normalized.output = <<"/", "t">>)

\* The letters 'A' to 'Z' in order.
Alphabet == [i \in 1..(CodeZ - CodeA + 1) |-> CodeA + (i - 1)]

\* The number of pages that hold the alphabet at a page size.
PagesOfAlphabet(pageSize) == (Len(Alphabet) + pageSize - 1) \div pageSize

\* C29: every page of a letters call has at most pageSize items and a null
\* nextCursor exactly when it ends with 'Z' or is empty; in an iteration that
\* starts without a cursor and passes each returned nextCursor back, at every
\* page size from 1 to 5, the pages so far, concatenated, are the first
\* letters of the alphabet in order, all of it exactly when the nextCursor
\* returned last is null; and the iteration terminates: each further page
\* adds at least one letter and returns a later cursor or null, with a null
\* nextCursor there is no further page, and that point is reached with the
\* pages that hold 26 letters, never more.
C29_LettersPagination ==
  /\ [](/\ (lettersLast.called
              => LET page == lettersLast.page
                     size == IF lettersLast.pageSize = Absent
                             THEN DefaultPageSize ELSE lettersLast.pageSize
                 IN  /\ Len(page.items) <= size
                     /\ (page.nextCursor = Absent)
                          = (page.items = << >> \/ page.items[Len(page.items)] = CodeZ))
        /\ (pagination.pages > 0
              => /\ Len(pagination.items) <= Len(Alphabet)
                 /\ pagination.items = SubSeq(Alphabet, 1, Len(pagination.items))
                 /\ (pagination.nextCursor = Absent) = (pagination.items = Alphabet)
                 /\ pagination.pages <= PagesOfAlphabet(pagination.pageSize)
                 /\ (pagination.nextCursor = Absent)
                      = (pagination.pages = PagesOfAlphabet(pagination.pageSize))))
  /\ [][/\ (pagination'.pages > 1 /\ pagination' # pagination
            => /\ pagination.nextCursor # Absent
               /\ pagination'.pages = pagination.pages + 1
               /\ lettersLast'.cursor = pagination.nextCursor
               /\ Len(lettersLast'.page.items) >= 1
               /\ Len(pagination'.items) > Len(pagination.items)
               /\ (pagination'.nextCursor = Absent
                     \/ (/\ pagination'.nextCursor > pagination.nextCursor
                         /\ pagination'.nextCursor <= CodeZ)))
        /\ (pagination.pages > 0 /\ pagination.nextCursor = Absent
            /\ pagination' # pagination
            => pagination'.pages = 1)]_lettersVars

\* C29 witness: with page size 4 the iteration has fetched its seventh and
\* last page, 'Y' and 'Z', and holds the whole alphabet.
C29_Witness ==
  /\ pagination.pageSize = 4
  /\ pagination.pages = 7
  /\ pagination.nextCursor = Absent
  /\ pagination.items = Alphabet
  /\ lettersLast.page.items = <<CodeZ - 1, CodeZ>>
  /\ lettersLast.cursor = CodeZ - 1

\* C24: a window is shown only by its did-finish-load listener: nothing
\* else makes it visible, neither its construction, nor dom-ready, nor a
\* further createWindow call, so it is hidden until did-finish-load.
C24_ShownOnlyOnDidFinishLoad ==
  \A i \in 1..Len(baseWindows) :
    /\ baseWindows[i].shownBy \subseteq {"did-finish-load"}
    /\ (baseWindows[i].visible => ~baseWindows[i].onceDidFinishLoad)

\* C28: a createWindow call for a type whose registered window is not
\* destroyed constructs nothing and returns that window, shown and focused,
\* leaving the Map as it is; a 'closed' event removes the entry of the
\* window's type; every entry of the Map is a window of that type whose
\* 'closed' event has not fired, so getWindow never returns a window whose
\* 'closed' event has fired.
C28_RegistryOneWindowPerType ==
  [][/\ ((/\ winLast'.op = "createWindow"
          /\ windows[winLast'.type] # 0
          /\ ~baseWindows[windows[winLast'.type]].destroyed)
           => /\ ~winLast'.constructed
              /\ Len(baseWindows') = Len(baseWindows)
              /\ winLast'.ret = windows[winLast'.type]
              /\ baseWindows'[winLast'.ret].visible
              /\ baseWindows'[winLast'.ret].focused
              /\ windows' = windows)
     /\ (winLast'.op = "closed"
           => windows'[baseWindows[winLast'.ret].type] = 0)
     /\ \A type \in WindowTypes :
          windows'[type] # 0
            => /\ baseWindows'[windows'[type]].type = type
               /\ ~baseWindows'[windows'[type]].closed
     /\ (winLast'.op = "getWindow" /\ winLast'.ret # 0
           => /\ winLast'.ret = windows[winLast'.type]
              /\ ~baseWindows'[winLast'.ret].closed)]_allVars

\* C28 witness: the first window was destroyed, a replacement of the same
\* type was constructed and registered, and then the first window's 'closed'
\* event fired and removed the entry of the type.
C28_Witness ==
  /\ winLast.op = "closed"
  /\ winLast.ret = 1
  /\ Len(baseWindows) = 2
  /\ baseWindows[2].type = baseWindows[1].type
  /\ ~baseWindows[2].destroyed
  /\ windows[baseWindows[1].type] = 0


\* C26: after a run of the preload script the API is exposed, whatever the
\* early application met. When nothing was thrown while applying, the root
\* carries the 'dark' class exactly when the local prefers-dark signal is
\* there and true, whatever the root carried before, and color-scheme is
\* 'dark' or 'light' to match; without matchMedia the result is light. A throw
\* happens only where matchMedia, the classList or the style fails, and is
\* caught.
C26_PreloadProvisionalApplication ==
  preload.ran =>
    /\ preload.exposed
    /\ preload.caught <=> (\/ preload.env.matchMedia = "throws"
                           \/ preload.env.classList = "throws"
                           \/ preload.env.style = "throws")
    /\ ~preload.caught =>
         /\ preload.root.dark <=> (/\ preload.env.matchMedia = "present"
                                   /\ preload.env.matches)
         /\ preload.root.colorScheme =
              IF preload.root.dark THEN "dark" ELSE "light"
    /\ (~preload.caught /\ preload.env.matchMedia = "absent") =>
         /\ ~preload.root.dark
         /\ preload.root.colorScheme = "light"

\* A run whose signal is true on a root that was already dark and had a light
\* color-scheme: the class stays and the color-scheme becomes dark.
C26_Witness ==
  /\ preload.ran
  /\ ~preload.caught
  /\ preload.env.matchMedia = "present"
  /\ preload.env.matches
  /\ preload.before = [dark |-> TRUE, colorScheme |-> "light"]
  /\ preload.root = [dark |-> TRUE, colorScheme |-> "dark"]
  /\ preload.exposed

====
